---- MODULE Spec2Model ----
(***************************************************************************)
(* A model of the ras-dapp front end.                                      *)
(*                                                                         *)
(*   Spec        the wallet session: WalletProvider of hooks/useWallet.ts  *)
(*               (connectWallet, disconnectWallet, switchNetwork, the      *)
(*               mount-time check and the chainChanged / accountsChanged   *)
(*               listeners), run against an injected provider whose        *)
(*               answers and notifications arrive in any order.            *)
(*   SpecVerify  the verify modal: handleSearch and decodeAttestation of   *)
(*               components/verify-modal.tsx with their helpers, run       *)
(*               against an attestation ledger and a schema registry       *)
(*               drawn from bounded sets.                                  *)
(*   SpecPage    the page with its three modals, one open at a time:       *)
(*               handleAttest of components/issue-modal.tsx, the field     *)
(*               list and handleDeploy of components/schema-modal.tsx,     *)
(*               and handleSearch, over a wallet session at rest.          *)
(*               FairSpecPage adds that every collaborator call is         *)
(*               answered.                                                 *)
(*   SpecHook    a component that calls the hook version of useWallet,     *)
(*               which attaches its listeners in the body of the hook.     *)
(*                                                                         *)
(* Every `await` of the source is a point where the handler is suspended:  *)
(* the part of a handler up to its next await is one action, and the       *)
(* resolution or rejection of the awaited request is the next one.  An      *)
(* await of a value that is already there (s.getAddress() of a signer that *)
(* holds its address) resumes before any other event is handled and is     *)
(* part of the action that precedes it.                                    *)
(***************************************************************************)
EXTENDS Integers, Sequences, FiniteSets, Bags, TLC

(***************************************************************************)
(* Bounds of the model.                                                    *)
(***************************************************************************)
\* connectWallet() and switchNetwork() calls that may be suspended at the same
\* time, the mount-time check not counted
MaxSuspended == 2
\* handleSearch() runs that may be suspended at the same time
MaxSearches == 2
\* fields the schema modal may list
MaxFields == 3
\* handler pairs the hook may have attached to the provider
MaxListeners == 3

(***************************************************************************)
(* Program constants.                                                      *)
(***************************************************************************)
TARGET_CHAIN_ID == 31

\* RSK_TESTNET.chainId, the string '0x1f', as its hexadecimal digits
RSK_TESTNET == [chainId |-> <<1, 15>>, chainName |-> "Rootstock Testnet"]

\* the rejection code a wallet gives for a chain it does not know
UNRECOGNIZED_CHAIN == 4902

(***************************************************************************)
(* Values.                                                                 *)
(***************************************************************************)
Null == "null"

\* accounts the wallet may select
Accounts == {"0xA1", "0xA2"}

\* chains the wallet may be on: Rootstock mainnet and the target
ChainIds == {30, TARGET_CHAIN_ID}

\* rejection codes of wallet_switchEthereumChain: unknown chain, user refusal
SwitchErrorCodes == {UNRECOGNIZED_CHAIN, 4001}

\* the messages the session writes to errorMessage
MsgWrongNetwork == "Please switch to Rootstock Testnet (Chain ID: 31)"
MsgNoWallet == "MetaMask (or a compatible wallet) is not installed."
MsgConnectFailed == "Wallet connection failed: "
MsgAddFailed == "Failed to add network: "
MsgSwitchRejected == "Network switch rejected or failed: "

(***************************************************************************)
(* Chain ids travel as hexadecimal strings: the provider delivers          *)
(* '0x1f', the handler parses it with parseInt(chainId, 16).               *)
(***************************************************************************)
RECURSIVE HexDigits(_)
HexDigits(n) == IF n < 16 THEN <<n>> ELSE Append(HexDigits(n \div 16), n % 16)

RECURSIVE parseInt16(_)
parseInt16(ds) ==
  IF ds = <<>> THEN 0
  ELSE 16 * parseInt16(SubSeq(ds, 1, Len(ds) - 1)) + ds[Len(ds)]

VARIABLES
  \* React state of WalletProvider
  address, provider, signer, errorMessage, isWrongNetwork,
  \* the injected provider (window.ethereum) and the wallet behind it
  hasEthereum, chain, selected, authorized,
  \* the mount-time check: the request it is suspended at
  mount,
  \* the suspended connectWallet() calls, a bag of [pc, stale]: the request
  \* each awaits, and whether a chain listener started it on the strength of
  \* a provider the session no longer had
  conn,
  \* the suspended switchNetwork() calls, a bag of [pc, code, nSwitch, nAdd, desc]
  sw,
  \* the value of `provider` captured by the listeners now attached
  \* ("none": no listener attached)
  lsnProvider,
  \* history: the operation of the session that took the last step (an
  \* accountsChanged notification runs disconnectWallet or connectWallet)
  lastAct,
  \* history: the account now set was written by a handshake with stale set
  resurrected,
  \* history: an accountsChanged notification delivered a non-empty list, and
  \* since then no handshake failed and no disconnect ran
  settled,
  \* React state of VerifyModal (its errorMessage is verifyError here)
  searchInput, results, verifyError, isLoading,
  \* the suspended handleSearch() runs, a bag of [pc, query]
  search,
  \* what the collaborators hold: the attestation eas.getAttestation answers
  \* with, and the record schemaRegistry.getSchema answers with
  ledger, registry,
  \* React state of the page: the modal it shows (null: none)
  activeModal,
  \* React state of IssueModal (its isLoading and result are isLoadingIssue
  \* and resultIssue here)
  schemaUID, schemaDataString, recipientAddress, score, isLoadingIssue,
  resultIssue,
  \* the suspended handleAttest() run: [pc, txHash]
  attest,
  \* React state of SchemaModal (its isLoading and result are isLoadingSchema
  \* and resultSchema here)
  schemaName, fields, isLoadingSchema, resultSchema,
  \* the suspended handleDeploy() run: [pc, txHash]
  deploy,
  \* a component that calls the hook version of useWallet: its life cycle,
  \* and the handler pairs its renders attached to the provider, each the
  \* value of `provider` its closures captured
  hook, hookListeners

walletState == <<address, provider, signer, errorMessage, isWrongNetwork>>
walletEnv == <<hasEthereum, chain, selected, authorized>>
walletTasks == <<mount, conn, sw, lsnProvider>>
walletHist == <<lastAct, resurrected, settled>>
walletVars == <<walletState, walletEnv, walletTasks, walletHist>>
verifyVars == <<searchInput, results, verifyError, isLoading, search, ledger, registry>>
issueVars ==
  <<schemaUID, schemaDataString, recipientAddress, score, isLoadingIssue,
    resultIssue, attest>>
schemaVars == <<schemaName, fields, isLoadingSchema, resultSchema, deploy>>
hookVars == <<hook, hookListeners>>
pageVars == <<activeModal, issueVars, schemaVars, hookVars>>
vars == <<walletVars, verifyVars, pageVars>>

\* a bag with one more / one fewer copy of t
Put(bag, t) == bag (+) SetToBag({t})
Take(bag, t) == bag (-) SetToBag({t})

\* the number of suspended calls awaiting an answer to `method`: the requests
\* for it that were issued and not yet answered
Pending(bag, method) ==
  BagCardinality([t \in {x \in BagToSet(bag) : x.pc = method} |-> bag[t]])

Mounted == mount.pc # "unmounted"

\* the BrowserProvider object a handshake builds around window.ethereum
BrowserProvider == "BrowserProvider"

WalletInit ==
  /\ address = Null
  /\ provider = Null
  /\ signer = Null
  /\ errorMessage = Null
  /\ isWrongNetwork = FALSE
  /\ hasEthereum \in BOOLEAN
  /\ chain \in ChainIds
  /\ selected \in Accounts
  /\ authorized \in BOOLEAN
  /\ mount = [pc |-> "unmounted"]
  /\ conn = EmptyBag
  /\ sw = EmptyBag
  /\ lsnProvider = "none"
  /\ lastAct = "init"
  /\ resurrected = FALSE
  /\ settled = FALSE

(***************************************************************************)
(* The first commit of WalletProvider runs both effects: the mount-time    *)
(* check issues eth_accounts, the listener effect attaches the handlers    *)
(* with the provider value of that render (null).                          *)
(***************************************************************************)
MountEffects ==
  /\ mount.pc = "unmounted"
  /\ mount' = [mount EXCEPT !.pc = IF hasEthereum THEN "eth_accounts" ELSE "done"]
  /\ lsnProvider' = IF hasEthereum THEN provider ELSE "none"
  /\ lastAct' = "mount"
  /\ UNCHANGED <<verifyVars, pageVars>>
  /\ UNCHANGED <<walletState, walletEnv, conn, sw, resurrected, settled>>

(***************************************************************************)
(* The listener effect has [provider, connectWallet, disconnectWallet] as  *)
(* dependencies: after a render in which provider changed, React removes   *)
(* the old handlers and attaches new ones that capture the new value.      *)
(* Until that effect has run, the attached handlers hold the old value.    *)
(***************************************************************************)
ListenerEffect ==
  /\ Mounted
  /\ hasEthereum
  /\ lsnProvider # provider
  /\ lsnProvider' = provider
  /\ lastAct' = "listenerEffect"
  /\ UNCHANGED <<verifyVars, pageVars>>
  /\ UNCHANGED <<walletState, walletEnv, mount, conn, sw, resurrected, settled>>

(***************************************************************************)
(* checkNetwork(p), after `await p.getNetwork()` has answered              *)
(* currentChainId: the flag and the message it writes.                     *)
(***************************************************************************)
isCorrect(currentChainId) == currentChainId = TARGET_CHAIN_ID

checkNetwork(currentChainId) ==
  /\ isWrongNetwork' = ~isCorrect(currentChainId)
  /\ errorMessage' = IF ~isCorrect(currentChainId) THEN MsgWrongNetwork ELSE Null

(***************************************************************************)
(* connectWallet(), up to its first await: without window.ethereum it      *)
(* writes the message and returns; otherwise it issues eth_requestAccounts *)
(* and is suspended.                                                       *)
(***************************************************************************)
\* a connectWallet without the `!window.ethereum` return: the request on the
\* missing provider throws into its catch block
connectWalletUnguarded(stale) ==
  IF ~hasEthereum
  THEN /\ errorMessage' = MsgConnectFailed
       /\ conn' = conn
  ELSE /\ errorMessage' = errorMessage
       /\ conn' = Put(conn, [pc |-> "eth_requestAccounts", stale |-> stale])

connectWallet(stale) ==
  IF ~hasEthereum
  THEN /\ errorMessage' = MsgNoWallet
       /\ conn' = conn
  ELSE /\ errorMessage' = errorMessage
       /\ conn' = Put(conn, [pc |-> "eth_requestAccounts", stale |-> stale])

\* room for one more suspended call
Room == BagCardinality(conn) + BagCardinality(sw) < MaxSuspended
CanConnect == hasEthereum => Room

\* the catch block of connectWallet
connectFailed(t) ==
  /\ errorMessage' = MsgConnectFailed
  /\ conn' = Take(conn, t)
  /\ lastAct' = "connectWallet"
  /\ UNCHANGED <<verifyVars, pageVars>>
  /\ settled' = FALSE
  /\ UNCHANGED <<address, provider, signer, isWrongNetwork, walletEnv,
                 mount, sw, lsnProvider, resurrected>>

\* The button of ConnectWallet reads 'Connect Wallet' while no address is set.
ConnectClick ==
  /\ Mounted
  /\ address = Null
  /\ CanConnect
  /\ connectWallet(FALSE)
  /\ lastAct' = "connectWallet"
  /\ UNCHANGED <<verifyVars, pageVars>>
  /\ UNCHANGED <<address, provider, signer, isWrongNetwork, walletEnv,
                 mount, sw, lsnProvider, resurrected, settled>>

\* eth_requestAccounts resolves (the user grants access): the handshake builds
\* the BrowserProvider and awaits p.getSigner().
RequestAccountsResolved(t) ==
  /\ t.pc = "eth_requestAccounts"
  /\ authorized' = TRUE
  /\ conn' = Put(Take(conn, t), [t EXCEPT !.pc = "getSigner"])
  /\ lastAct' = "connectWallet"
  /\ UNCHANGED <<verifyVars, pageVars>>
  /\ UNCHANGED <<walletState, hasEthereum, chain, selected, mount, sw,
                 lsnProvider, resurrected, settled>>

RequestAccountsRejected(t) ==
  /\ t.pc = "eth_requestAccounts"
  /\ connectFailed(t)

\* p.getSigner() resolves with the signer s of the selected account.
\* `await s.getAddress()` returns the address s already holds: it issues no
\* request, cannot throw, and resumes before any other event is handled.  So
\* the four setters run in the same step, then checkNetwork(p) runs up to
\* `await p.getNetwork()`.
GetSignerResolved(t) ==
  /\ t.pc = "getSigner"
  /\ authorized
  /\ address' = selected
  /\ provider' = BrowserProvider
  /\ signer' = selected
  /\ errorMessage' = Null
  /\ conn' = Put(Take(conn, t), [t EXCEPT !.pc = "getNetwork"])
  /\ resurrected' = t.stale
  /\ settled' = settled
  /\ lastAct' = "connectWallet"
  /\ UNCHANGED <<verifyVars, pageVars>>
  /\ UNCHANGED <<isWrongNetwork, walletEnv, mount, sw, lsnProvider>>

GetSignerRejected(t) ==
  /\ t.pc = "getSigner"
  /\ connectFailed(t)

\* p.getNetwork() resolves inside checkNetwork.
GetNetworkResolved(t) ==
  /\ t.pc = "getNetwork"
  /\ checkNetwork(chain)
  /\ conn' = Take(conn, t)
  /\ lastAct' = "connectWallet"
  /\ UNCHANGED <<verifyVars, pageVars>>
  /\ UNCHANGED <<address, provider, signer, walletEnv, mount, sw,
                 lsnProvider, resurrected, settled>>

\* p.getNetwork() throws: checkNetwork catches, logs and returns false.
GetNetworkRejected(t) ==
  /\ t.pc = "getNetwork"
  /\ conn' = Take(conn, t)
  /\ lastAct' = "connectWallet"
  /\ UNCHANGED <<verifyVars, pageVars>>
  /\ UNCHANGED <<walletState, walletEnv, mount, sw, lsnProvider, resurrected, settled>>

(***************************************************************************)
(* disconnectWallet(): five setters, no await, no request.                 *)
(***************************************************************************)
\* a disconnectWallet that forgets setIsWrongNetwork(false)
disconnectKeepsFlag ==
  /\ address' = Null
  /\ provider' = Null
  /\ signer' = Null
  /\ errorMessage' = Null
  /\ UNCHANGED isWrongNetwork

disconnectWallet ==
  /\ address' = Null
  /\ provider' = Null
  /\ signer' = Null
  /\ errorMessage' = Null
  /\ isWrongNetwork' = FALSE

\* The button of ConnectWallet reads 'Disconnect Wallet' while an address is set.
\* A click is a discrete event: React renders and runs the listener effect
\* before the click returns, so the listeners attached afterwards hold the
\* null provider.
DisconnectClick ==
  /\ Mounted
  /\ address # Null
  /\ disconnectWallet
  /\ lsnProvider' = IF lsnProvider = "none" THEN "none" ELSE Null
  /\ resurrected' = FALSE
  /\ settled' = FALSE
  /\ lastAct' = "disconnectWallet"
  /\ UNCHANGED <<verifyVars, pageVars>>
  /\ UNCHANGED <<walletEnv, mount, conn, sw>>

(***************************************************************************)
(* checkExistingConnection(), the mount-time check.  It sets the account   *)
(* as connectWallet does, but leaves errorMessage alone and its catch      *)
(* block only logs.                                                        *)
(***************************************************************************)
\* what eth_accounts answers: the authorized accounts, selected one first
ethAccounts == IF authorized THEN <<selected>> ELSE <<>>

\* a mount-time check that takes the address from the eth_accounts answer
MountAccountsSetsAddress ==
  /\ mount.pc = "eth_accounts"
  /\ mount' = [mount EXCEPT !.pc = IF Len(ethAccounts) > 0 THEN "getSigner" ELSE "done"]
  /\ address' = IF Len(ethAccounts) > 0 THEN ethAccounts[1] ELSE address
  /\ lastAct' = "checkExistingConnection"
  /\ UNCHANGED <<verifyVars, pageVars>>
  /\ UNCHANGED <<provider, signer, errorMessage, isWrongNetwork, walletEnv,
                 conn, sw, lsnProvider, resurrected, settled>>

MountAccountsResolved ==
  /\ mount.pc = "eth_accounts"
  /\ mount' = [mount EXCEPT !.pc = IF Len(ethAccounts) > 0 THEN "getSigner" ELSE "done"]
  /\ lastAct' = "checkExistingConnection"
  /\ UNCHANGED <<verifyVars, pageVars>>
  /\ UNCHANGED <<walletState, walletEnv, conn, sw, lsnProvider, resurrected, settled>>

\* p.getSigner() resolves; s.getAddress() follows in the same step
MountGetSignerResolved ==
  /\ mount.pc = "getSigner"
  /\ authorized
  /\ address' = selected
  /\ provider' = BrowserProvider
  /\ signer' = selected
  /\ mount' = [pc |-> "getNetwork"]
  /\ resurrected' = FALSE
  /\ settled' = settled
  /\ lastAct' = "checkExistingConnection"
  /\ UNCHANGED <<verifyVars, pageVars>>
  /\ UNCHANGED <<errorMessage, isWrongNetwork, walletEnv, conn, sw, lsnProvider>>

MountGetNetworkResolved ==
  /\ mount.pc = "getNetwork"
  /\ checkNetwork(chain)
  /\ mount' = [mount EXCEPT !.pc = "done"]
  /\ lastAct' = "checkExistingConnection"
  /\ UNCHANGED <<verifyVars, pageVars>>
  /\ UNCHANGED <<address, provider, signer, walletEnv, conn, sw,
                 lsnProvider, resurrected, settled>>

\* Any of its requests throws: eth_accounts and getSigner land in the catch
\* block of checkExistingConnection, getNetwork in checkNetwork's.
MountRejected ==
  /\ mount.pc \in {"eth_accounts", "getSigner", "getNetwork"}
  /\ mount' = [pc |-> "done"]
  /\ settled' = FALSE
  /\ lastAct' = "checkExistingConnection"
  /\ UNCHANGED <<verifyVars, pageVars>>
  /\ UNCHANGED <<walletState, walletEnv, conn, sw, lsnProvider, resurrected>>

(***************************************************************************)
(* The listeners.  The handlers are closures of the render whose effect    *)
(* attached them: `provider` inside handleChainChanged is lsnProvider.     *)
(***************************************************************************)
\* handleChainChanged goes on to call connectWallet()
chainReconnects(chainId) ==
  parseInt16(chainId) = TARGET_CHAIN_ID /\ lsnProvider # Null

\* a handleChainChanged that clears the flag only inside `if (provider)`
handleChainChangedGuarded(chainId) ==
  LET chainIdNum == parseInt16(chainId) IN
  IF chainIdNum # TARGET_CHAIN_ID
  THEN /\ isWrongNetwork' = TRUE
       /\ UNCHANGED <<errorMessage, conn>>
  ELSE IF lsnProvider # Null
       THEN /\ isWrongNetwork' = FALSE
            /\ connectWallet(provider = Null)
       ELSE UNCHANGED <<isWrongNetwork, errorMessage, conn>>

handleChainChanged(chainId) ==
  LET chainIdNum == parseInt16(chainId) IN
  IF chainIdNum # TARGET_CHAIN_ID
  THEN /\ isWrongNetwork' = TRUE
       /\ UNCHANGED <<errorMessage, conn>>
  ELSE /\ isWrongNetwork' = FALSE
       /\ IF lsnProvider # Null
          THEN connectWallet(provider = Null)
          ELSE UNCHANGED <<errorMessage, conn>>

\* The wallet moves to another chain and notifies the page.
ChainChanged(id) ==
  /\ Mounted
  /\ lsnProvider # "none"
  /\ id # chain
  /\ chainReconnects(HexDigits(id)) => CanConnect
  /\ chain' = id
  /\ handleChainChanged(HexDigits(id))
  /\ lastAct' = "handleChainChanged"
  /\ UNCHANGED <<verifyVars, pageVars>>
  /\ UNCHANGED <<address, provider, signer, hasEthereum, selected, authorized,
                 mount, sw, lsnProvider, resurrected, settled>>

\* a handleAccountsChanged that keeps the session it has when the wallet
\* selects an account
handleAccountsChangedKeeps(accounts) ==
  IF Len(accounts) = 0
  THEN /\ disconnectWallet
       /\ conn' = conn
  ELSE UNCHANGED <<address, provider, signer, errorMessage, isWrongNetwork, conn>>

\* a handleAccountsChanged that reconnects whatever the list holds
handleAccountsChangedReconnects(accounts) ==
  /\ connectWallet(FALSE)
  /\ UNCHANGED <<address, provider, signer, isWrongNetwork>>

handleAccountsChanged(accounts) ==
  IF Len(accounts) = 0
  THEN /\ disconnectWallet
       /\ conn' = conn
  ELSE /\ connectWallet(FALSE)
       /\ UNCHANGED <<address, provider, signer, isWrongNetwork>>

\* The wallet revokes access (empty list) or selects an account.
AccountsChanged(accounts) ==
  /\ Mounted
  /\ lsnProvider # "none"
  /\ Len(accounts) > 0 => CanConnect
  /\ authorized' = (Len(accounts) > 0)
  /\ selected' = IF Len(accounts) > 0 THEN accounts[1] ELSE selected
  /\ handleAccountsChanged(accounts)
  /\ resurrected' = IF Len(accounts) = 0 THEN FALSE ELSE resurrected
  /\ settled' = (Len(accounts) > 0)
  /\ lastAct' = IF Len(accounts) = 0 THEN "disconnectWallet" ELSE "connectWallet"
  /\ UNCHANGED <<verifyVars, pageVars>>
  /\ UNCHANGED <<hasEthereum, chain, mount, sw, lsnProvider>>

(***************************************************************************)
(* switchNetwork().                                                        *)
(***************************************************************************)
\* the catch block of the switch request falls back to adding the chain
\* a catch block that adds the chain after any rejection
addsChainAlways(code) == code \in SwitchErrorCodes

addsChain(code) == code = UNRECOGNIZED_CHAIN

\* The 'Switch to RSK Testnet' button is shown while an address is set and
\* the network is wrong.
SwitchClick ==
  /\ Mounted
  /\ address # Null /\ isWrongNetwork
  /\ hasEthereum => Room
  /\ sw' = IF ~hasEthereum
           THEN sw
           ELSE Put(sw, [pc |-> "wallet_switchEthereumChain", code |-> 0,
                         nSwitch |-> 1, nAdd |-> 0, desc |-> Null])
  /\ lastAct' = "switchNetwork"
  /\ UNCHANGED <<verifyVars, pageVars>>
  /\ UNCHANGED <<walletState, walletEnv, mount, conn, lsnProvider, resurrected, settled>>

\* The wallet is on the requested chain and resolves the request.
SwitchResolved(t) ==
  /\ t.pc = "wallet_switchEthereumChain"
  /\ chain = parseInt16(RSK_TESTNET.chainId)
  /\ sw' = Take(sw, t)
  /\ lastAct' = "switchNetwork"
  /\ UNCHANGED <<verifyVars, pageVars>>
  /\ UNCHANGED <<walletState, walletEnv, mount, conn, lsnProvider, resurrected, settled>>

SwitchRejected(t, code) ==
  /\ t.pc = "wallet_switchEthereumChain"
  /\ IF addsChain(code)
     THEN /\ sw' = Put(Take(sw, t),
                       [pc |-> "wallet_addEthereumChain", code |-> code,
                        nSwitch |-> t.nSwitch, nAdd |-> t.nAdd + 1,
                        desc |-> RSK_TESTNET.chainName])
          /\ UNCHANGED errorMessage
     ELSE /\ sw' = Take(sw, t)
          /\ errorMessage' = MsgSwitchRejected
  /\ lastAct' = "switchNetwork"
  /\ UNCHANGED <<verifyVars, pageVars>>
  /\ UNCHANGED <<address, provider, signer, isWrongNetwork, walletEnv, mount,
                 conn, lsnProvider, resurrected, settled>>

\* a switchNetwork that marks the network correct itself once the chain is
\* added, as the ConnectWallet component once did after a switch
AddResolvedSetsFlag(t) ==
  /\ t.pc = "wallet_addEthereumChain"
  /\ sw' = Take(sw, t)
  /\ isWrongNetwork' = FALSE
  /\ errorMessage' = Null
  /\ lastAct' = "switchNetwork"
  /\ UNCHANGED <<verifyVars, pageVars>>
  /\ UNCHANGED <<address, provider, signer, walletEnv, mount, conn,
                 lsnProvider, resurrected, settled>>

AddResolved(t) ==
  /\ t.pc = "wallet_addEthereumChain"
  /\ sw' = Take(sw, t)
  /\ lastAct' = "switchNetwork"
  /\ UNCHANGED <<verifyVars, pageVars>>
  /\ UNCHANGED <<walletState, walletEnv, mount, conn, lsnProvider, resurrected, settled>>

AddRejected(t) ==
  /\ t.pc = "wallet_addEthereumChain"
  /\ sw' = Take(sw, t)
  /\ errorMessage' = MsgAddFailed
  /\ lastAct' = "switchNetwork"
  /\ UNCHANGED <<verifyVars, pageVars>>
  /\ UNCHANGED <<address, provider, signer, isWrongNetwork, walletEnv, mount,
                 conn, lsnProvider, resurrected, settled>>

(***************************************************************************)
(* The verify modal.                                                       *)
(*                                                                         *)
(* Strings are sequences of characters, so that trimming, prefixes,        *)
(* lengths, the marker test and the parsing of a schema are computed.      *)
(***************************************************************************)
UID_LENGTH == 66

Str0x == <<"0", "x">>
StrScore == <<"u", "i", "n", "t", "8", " ", "s", "c", "o", "r", "e">>
StrScorePassed == <<"u", "i", "n", "t", "8", " ", "s", "c", "o", "r", "e", ",", "b", "o", "o", "l", " ", "p", "a", "s", "s", "e", "d">>
StrUid == <<"0", "x", "5", "c", "1", "e", "8", "a", "2", "b", "7", "f">>
StrResolver == <<"0", "x", "0", "0", "0", "0", "0", "0", "0", "0", "0", "0">>
StrUintOk == <<"u", "i", "n", "t", "8", " ", "o", "k">>
StrBoolOk == <<"b", "o", "o", "l", " ", "o", "k">>

\* a 66-character UID, and inputs that fail the shape check or need trimming
ValidUid == Str0x \o [i \in 1 .. 64 |-> "a"]
Queries ==
  { <<>>, <<" ">>, Str0x \o <<"1", "2">>, <<"z", "z">> \o [i \in 1 .. 64 |-> "a"],
    ValidUid, <<" ">> \o ValidUid \o <<" ">> }

\* String.prototype.trim
RECURSIVE trimStart(_)
trimStart(s) == IF s # <<>> /\ Head(s) = " " THEN trimStart(Tail(s)) ELSE s

RECURSIVE trimEnd(_)
trimEnd(s) ==
  IF s # <<>> /\ s[Len(s)] = " " THEN trimEnd(SubSeq(s, 1, Len(s) - 1)) ELSE s

trim(s) == trimEnd(trimStart(s))

startsWith(s, prefix) ==
  Len(s) >= Len(prefix) /\ SubSeq(s, 1, Len(prefix)) = prefix

includes(s, sub) ==
  \E i \in 1 .. (Len(s) - Len(sub) + 1) : SubSeq(s, i, i + Len(sub) - 1) = sub

\* String.prototype.split on one separator character
RECURSIVE split(_, _)
split(s, sep) ==
  IF \A i \in 1 .. Len(s) : s[i] # sep
  THEN <<s>>
  ELSE LET k == CHOOSE i \in 1 .. Len(s) :
                  s[i] = sep /\ \A j \in 1 .. (i - 1) : s[j] # sep
       IN <<SubSeq(s, 1, k - 1)>> \o split(SubSeq(s, k + 1, Len(s)), sep)

\* a non-negative integer in base 10 (BigInt.prototype.toString, String(n))
DecimalDigit(d) == <<"0", "1", "2", "3", "4", "5", "6", "7", "8", "9">>[d + 1]

RECURSIVE toDecimal(_)
toDecimal(n) ==
  IF n < 10 THEN <<DecimalDigit(n)>>
  ELSE Append(toDecimal(n \div 10), DecimalDigit(n % 10))

(***************************************************************************)
(* Values of the attestation record.  A payload is a hex string: absent,   *)
(* the empty string, the sentinel '0x', or '0x' followed by 32-byte words. *)
(* A timestamp arrives as a number, a bigint or a numeric string.          *)
(***************************************************************************)
Undefined == "undefined"
ZERO_ADDRESS == "0x0000000000000000000000000000000000000000"
Recipient == "0x742d35Cc6634C0532925a3b844Bc2e7595f42000"

NoData == [defined |-> FALSE, prefix |-> FALSE, words |-> <<>>]
EmptyString == [defined |-> TRUE, prefix |-> FALSE, words |-> <<>>]
Hex(words) == [defined |-> TRUE, prefix |-> TRUE, words |-> words]
Sentinel == Hex(<<>>)

\* the payloads on the ledger: a score of 95, and a score of 95 with passed = 1
Payloads == {NoData, EmptyString, Sentinel, Hex(<<95>>), Hex(<<95, 1>>)}

\* the length of a hex string in characters
hexLength(d) == (IF d.prefix THEN 2 ELSE 0) + 64 * Len(d.words)

\* !d for a payload: undefined, null and '' are falsy
falsyData(d) == ~d.defined \/ hexLength(d) = 0

NoTime == [type |-> Undefined, n |-> 0]
Number(n) == [type |-> "number", n |-> n]
BigInt(n) == [type |-> "bigint", n |-> n]
NumericString(n) == [type |-> "string", n |-> n]

\* the timestamps on the ledger, in seconds
RevocationTimes ==
  {NoTime, Number(0), BigInt(0), NumericString(0), BigInt(1700000000)}
IssueTimes == {NoTime, BigInt(1600000000)}

\* JavaScript truthiness of a timestamp: a non-empty string is truthy
truthy(v) ==
  CASE v.type = Undefined -> FALSE
    [] v.type = "string" -> TRUE
    [] OTHER -> v.n # 0

\* v !== 0: only the number 0 is strictly equal to 0
notStrictlyZero(v) == ~(v.type = "number" /\ v.n = 0)

\* String(v) !== "0"
notStringZero(v) == v.type = Undefined \/ toDecimal(v.n) # <<"0">>

\* the records eas.getAttestation may answer with: nothing, a record without
\* recipient, the zero-recipient record of an unknown UID, or an attestation
Attestations ==
  { [exists |-> FALSE, recipient |-> Undefined, data |-> NoData,
     revocationTime |-> NoTime, time |-> NoTime],
    [exists |-> TRUE, recipient |-> Undefined, data |-> NoData,
     revocationTime |-> NoTime, time |-> NoTime],
    [exists |-> TRUE, recipient |-> ZERO_ADDRESS, data |-> Sentinel,
     revocationTime |-> BigInt(0), time |-> BigInt(0)] }
  \cup [exists : {TRUE}, recipient : {Recipient}, data : Payloads,
        revocationTime : RevocationTimes, time : IssueTimes]

(***************************************************************************)
(* What schemaRegistry.getSchema answers with: null, a string, or an       *)
(* object whose enumerable entries are kept in key order.                  *)
(***************************************************************************)
StringValue(s) == [t |-> "string", str |-> s]
OtherValue == [t |-> "boolean", str |-> <<>>]
Entry(k, v) == [key |-> k, val |-> v]

NullRecord == [kind |-> "null", str |-> <<>>, entries |-> <<>>]
StringRecord(s) == [kind |-> "string", str |-> s, entries |-> <<>>]
ObjectRecord(es) == [kind |-> "object", str |-> <<>>, entries |-> es]

SchemaRecords ==
  { NullRecord,
    ObjectRecord(<<>>),
    ObjectRecord(<<Entry("uid", StringValue(StrUid)),
                   Entry("schema", StringValue(StrScore))>>),
    ObjectRecord(<<Entry("schema", StringValue(StrScorePassed))>>),
    ObjectRecord(<<Entry("0", StringValue(StrUid)),
                   Entry("1", StringValue(StrResolver)),
                   Entry("2", OtherValue),
                   Entry("3", StringValue(StrScore))>>),
    ObjectRecord(<<Entry("0", OtherValue), Entry("1", OtherValue)>>),
    ObjectRecord(<<Entry("0", StringValue(StrUid)),
                   Entry("1", StringValue(StrResolver))>>),
    ObjectRecord(<<Entry("0", StringValue(StrUintOk)),
                   Entry("1", StringValue(StrScore))>>),
    ObjectRecord(<<Entry("schema", OtherValue),
                   Entry("definition", StringValue(StrScore))>>),
    ObjectRecord(<<Entry("schema", StringValue(StrBoolOk))>>),
    StringRecord(StrScore) }

\* !isNaN(Number(k)) for the keys above
numericKey(k) == k \in {"0", "1", "2", "3"}

\* /uint|int|string|bytes|\(|,/.test(s)
hasTypeMarker(s) ==
  \E m \in {<<"u", "i", "n", "t">>, <<"i", "n", "t">>, <<"s", "t", "r", "i", "n", "g">>, <<"b", "y", "t", "e", "s">>, <<"(">>, <<",">>} : includes(s, m)

\* a scan that keeps the strings of 8 characters too
RECURSIVE candidateStringsFrom8(_)
candidateStringsFrom8(entries) ==
  IF entries = <<>> THEN <<>>
  ELSE LET e == Head(entries)
           long == e.val.t = "string" /\ Len(e.val.str) >= 8
       IN (IF long THEN <<e.val.str>> ELSE <<>>)
          \o (IF numericKey(e.key) /\ long THEN <<e.val.str>> ELSE <<>>)
          \o candidateStringsFrom8(Tail(entries))

\* the strings pushed to candidateStrings, in the order of Object.keys
RECURSIVE candidateStrings(_)
candidateStrings(entries) ==
  IF entries = <<>> THEN <<>>
  ELSE LET e == Head(entries)
           long == e.val.t = "string" /\ Len(e.val.str) > 8
       IN (IF long THEN <<e.val.str>> ELSE <<>>)
          \o (IF numericKey(e.key) /\ long THEN <<e.val.str>> ELSE <<>>)
          \o candidateStrings(Tail(entries))

\* an extractSchemaString without the `typeof schemaRecord === "string"` return
extractSchemaStringOfObjects(schemaRecord) ==
  CASE schemaRecord.kind = "null" -> <<>>
    [] schemaRecord.kind = "string" -> <<>>
    [] OTHER ->
       LET es == schemaRecord.entries
           named == {i \in 1 .. Len(es) :
                       es[i].key = "schema" /\ es[i].val.t = "string"}
           cands == candidateStrings(es)
           marked == {i \in 1 .. Len(cands) : hasTypeMarker(cands[i])}
       IN IF named # {}
          THEN es[CHOOSE i \in named : TRUE].val.str
          ELSE IF marked # {}
          THEN cands[CHOOSE i \in marked : \A j \in marked : i <= j]
          ELSE IF cands # <<>> THEN cands[1] ELSE <<>>

extractSchemaString(schemaRecord) ==
  CASE schemaRecord.kind = "null" -> <<>>
    [] schemaRecord.kind = "string" -> schemaRecord.str
    [] OTHER ->
       LET es == schemaRecord.entries
           named == {i \in 1 .. Len(es) :
                       es[i].key = "schema" /\ es[i].val.t = "string"}
           cands == candidateStrings(es)
           marked == {i \in 1 .. Len(cands) : hasTypeMarker(cands[i])}
       IN IF named # {}
          THEN es[CHOOSE i \in named : TRUE].val.str
          ELSE IF marked # {}
          THEN cands[CHOOSE i \in marked : \A j \in marked : i <= j]
          ELSE IF cands # <<>> THEN cands[1] ELSE <<>>

(***************************************************************************)
(* SchemaEncoder of the EAS SDK: a schema string is a comma-separated list *)
(* of `type name`; decodeData reads one 32-byte word per field and throws  *)
(* (BUFFER_OVERRUN) when the payload is shorter than the schema.           *)
(***************************************************************************)
schemaFields(schemaString) ==
  LET decls == split(schemaString, ",")
  IN [i \in 1 .. Len(decls) |->
        LET parts == split(trim(decls[i]), " ")
        IN [type |-> parts[1], name |-> parts[Len(parts)]]]

decodeWord(type, word) ==
  IF type = <<"u", "i", "n", "t", "8">> THEN [t |-> "bigint", n |-> word % 256]
  ELSE IF type = <<"b", "o", "o", "l">> THEN [t |-> "boolean", n |-> IF word # 0 THEN 1 ELSE 0]
  ELSE [t |-> "bigint", n |-> word]

decodeThrows(schemaString, dataHex) ==
  Len(dataHex.words) < Len(schemaFields(schemaString))

decodeData(schemaString, dataHex) ==
  LET items == schemaFields(schemaString)
  IN [i \in 1 .. Len(items) |->
        [name |-> items[i].name,
         value |-> decodeWord(items[i].type, dataHex.words[i])]]

toDisplayValue(v) ==
  IF v.t = "boolean" THEN (IF v.n = 1 THEN <<"t", "r", "u", "e">> ELSE <<"f", "a", "l", "s", "e">>)
  ELSE toDecimal(v.n)

\* safeDecodeWithSchema throws on a missing schema, on missing data and when
\* decodeData throws
safeDecodeThrows(schemaString, dataHex) ==
  \/ trim(schemaString) = <<>>
  \/ falsyData(dataHex) \/ dataHex = Sentinel \/ hexLength(dataHex) <= 2
  \/ decodeThrows(schemaString, dataHex)

\* what it returns otherwise: the fields in the order decoded, as <<name, text>>
safeDecodeWithSchema(schemaString, dataHex) ==
  LET decoded == decodeData(schemaString, dataHex)
  IN [i \in 1 .. Len(decoded) |-> <<decoded[i].name, toDisplayValue(decoded[i].value)>>]

(***************************************************************************)
(* The fields of an AttestationResult.                                     *)
(***************************************************************************)
\* "Unknown", or the local date and time of second n of the epoch
formatTimestamp(maybeTs) ==
  IF maybeTs.type = Undefined \/ maybeTs.n = 0
  THEN [known |-> FALSE, second |-> 0]
  ELSE [known |-> TRUE, second |-> maybeTs.n]

\* the status written by decodeAttestation
decodeStatus(rev) ==
  IF truthy(rev) /\ notStrictlyZero(rev) /\ notStringZero(rev)
  THEN "Revoked" ELSE "Valid"

\* the status written by the snapshot of handleSearch
snapshotStatus(rev) ==
  IF truthy(rev) /\ notStrictlyZero(rev) THEN "Revoked" ELSE "Valid"

NoResults == [isNull |-> TRUE, items |-> <<>>]
Results(items) == [isNull |-> FALSE, items |-> items]

\* a decodeAttestation that reports the sentinel in place of a payload it
\* could not decode
decodeAttestationDropsRaw(attestation, uid, schemaString) ==
  [uid |-> uid,
   schema |-> schemaString,
   decodedData |-> <<>>,
   rawDataHex |-> IF safeDecodeThrows(schemaString, attestation.data)
                  THEN Sentinel ELSE attestation.data,
   issuedOn |-> formatTimestamp(attestation.time),
   status |-> decodeStatus(attestation.revocationTime)]

\* the result decodeAttestation returns once the schema lookup has ended with
\* schemaString: decodedData stays the empty object it is initialised to
decodeAttestation(attestation, uid, schemaString) ==
  [uid |-> uid,
   schema |-> schemaString,
   decodedData |-> <<>>,
   rawDataHex |-> attestation.data,
   issuedOn |-> formatTimestamp(attestation.time),
   status |-> decodeStatus(attestation.revocationTime)]

\* the snapshot handleSearch builds for a record without payload:
\* rawDataHex is `attestation.data ?? "0x"`
snapshot(attestation, uid) ==
  [uid |-> uid,
   schema |-> <<>>,
   decodedData |-> <<>>,
   rawDataHex |-> IF attestation.data.defined THEN attestation.data ELSE Sentinel,
   issuedOn |-> formatTimestamp(attestation.time),
   status |-> snapshotStatus(attestation.revocationTime)]

(***************************************************************************)
(* The page shows one modal at a time: a modal that is closed is unmounted *)
(* and its state is discarded, a modal that is opened starts from its      *)
(* initial state.                                                          *)
(***************************************************************************)
ModalTypes == {"schema", "issue", "verify"}

(***************************************************************************)
(* The issue modal.                                                        *)
(***************************************************************************)
DEFAULT_SCHEMA_UID == <<"0", "x", "f", "5", "8", "b", "8", "b", "2", "1", "2", "e", "f", "7", "5", "e", "e", "8", "c", "d", "7", "e", "8", "d", "8", "0", "3", "c", "3", "7", "c", "0", "3", "e", "0", "5", "1", "9", "8", "9", "0", "5", "0", "2", "d", "5", "e", "9", "9", "e", "e", "2", "4", "1", "2", "a", "a", "e", "1", "4", "5", "6", "c", "a", "f", "e">>
DEFAULT_SCHEMA_DATA_STRING == StrScore

\* the initial value of recipientAddress, 39 characters long
StrDefaultRecipient == <<"0", "x", "7", "4", "2", "d", "3", "5", "C", "c", "6", "6", "3", "4", "C", "0", "5", "3", "2", "9", "2", "5", "a", "3", "b", "8", "4", "4", "B", "c", "2", "e", "7", "5", "9", "5", "f", "4", "2">>
\* a 20-byte address in lower case
StrRecipient == Str0x \o [i \in 1 .. 40 |-> "b"]

\* what the user may type into the four inputs; the score input has
\* type="number", so its value is empty or the text of a number
SchemaUids ==
  { DEFAULT_SCHEMA_UID, <<>>, Str0x \o <<"1", "2">>,
    <<"z", "z">> \o [i \in 1 .. 64 |-> "a"] }
SchemaDataStrings == {DEFAULT_SCHEMA_DATA_STRING, <<>>}
RecipientAddresses ==
  {StrDefaultRecipient, StrRecipient, [i \in 1 .. 40 |-> "b"], <<>>}
Scores ==
  { <<"9", "5">>, <<"0">>, <<"1", "0", "0">>, <<"1", "0", "1">>, <<"-", "1">>,
    <<"9", ".", "5">>, <<>> }

\* ethers.isAddress, for a string without upper-case letters (a string of
\* mixed case must also carry a valid checksum): 40 hexadecimal digits,
\* with or without the prefix '0x'
LowerHexChars ==
  {"0", "1", "2", "3", "4", "5", "6", "7", "8", "9", "a", "b", "c", "d", "e", "f"}

isAddress(value) ==
  LET digits == IF startsWith(value, Str0x)
                THEN SubSeq(value, 3, Len(value)) ELSE value
  IN Len(digits) = 40 /\ \A i \in 1 .. 40 : digits[i] \in LowerHexChars

\* parseInt(score, 10): leading blanks and a sign are skipped, the longest
\* prefix of decimal digits is the value, NaN without such a prefix
DecimalChars == {DecimalDigit(d) : d \in 0 .. 9}

RECURSIVE leadingDigits(_)
leadingDigits(s) ==
  IF s # <<>> /\ Head(s) \in DecimalChars
  THEN <<Head(s)>> \o leadingDigits(Tail(s))
  ELSE <<>>

RECURSIVE decimalValue(_)
decimalValue(ds) ==
  IF ds = <<>> THEN 0
  ELSE 10 * decimalValue(SubSeq(ds, 1, Len(ds) - 1))
       + (CHOOSE d \in 0 .. 9 : DecimalDigit(d) = ds[Len(ds)])

parseInt10(s) ==
  LET t == trimStart(s)
      signed == t # <<>> /\ Head(t) \in {"-", "+"}
      ds == leadingDigits(IF signed THEN Tail(t) ELSE t)
  IN [isNaN |-> ds = <<>>,
      value |-> IF signed /\ Head(t) = "-" THEN 0 - decimalValue(ds)
                ELSE decimalValue(ds)]

\* the result state of a modal: null, or a status with uid and txHash
NoResult == [status |-> Null, uid |-> <<>>, txHash |-> <<>>]
Failed == [status |-> "Failed", uid |-> <<>>, txHash |-> <<>>]
Confirmed(uid, txHash) == [status |-> "Confirmed", uid |-> uid, txHash |-> txHash]

\* a handler run that is not suspended, and one suspended at a request
Idle == [pc |-> "idle", txHash |-> <<>>]
Suspended(pc, txHash) == [pc |-> pc, txHash |-> txHash]

\* what the collaborators answer: the hash of the transaction response
\* (`tx?.hash || ""`), and the value tx.wait() resolves with
StrTxHash == Str0x \o <<"7", "7">>
TxHashes == {<<>>, StrTxHash}

WaitResults ==
  { [kind |-> "string", hasUid |-> FALSE, uid |-> StrUid],
    [kind |-> "string", hasUid |-> FALSE, uid |-> <<>>],
    [kind |-> "string", hasUid |-> FALSE, uid |-> <<"5", "c">>],
    [kind |-> "object", hasUid |-> TRUE, uid |-> StrUid],
    [kind |-> "object", hasUid |-> TRUE, uid |-> <<>>],
    [kind |-> "object", hasUid |-> TRUE, uid |-> <<"5", "c">>],
    [kind |-> "object", hasUid |-> FALSE, uid |-> <<>>],
    [kind |-> "undefined", hasUid |-> FALSE, uid |-> <<>>] }

IssueInit ==
  /\ schemaUID = DEFAULT_SCHEMA_UID
  /\ schemaDataString = DEFAULT_SCHEMA_DATA_STRING
  /\ recipientAddress = StrDefaultRecipient
  /\ score = <<"9", "5">>
  /\ isLoadingIssue = FALSE
  /\ resultIssue = NoResult
  /\ attest = Idle

isReadyToAttest == signer # Null /\ ~isWrongNetwork

\* the onChange handlers of the four inputs
SetSchemaUID(value) ==
  /\ schemaUID # value
  /\ schemaUID' = value
  /\ UNCHANGED <<schemaDataString, recipientAddress, score, isLoadingIssue,
                 resultIssue, attest>>
  /\ UNCHANGED <<walletVars, verifyVars, activeModal, schemaVars, hookVars>>

SetSchemaDataString(value) ==
  /\ schemaDataString # value
  /\ schemaDataString' = value
  /\ UNCHANGED <<schemaUID, recipientAddress, score, isLoadingIssue,
                 resultIssue, attest>>
  /\ UNCHANGED <<walletVars, verifyVars, activeModal, schemaVars, hookVars>>

SetRecipientAddress(value) ==
  /\ recipientAddress # value
  /\ recipientAddress' = value
  /\ UNCHANGED <<schemaUID, schemaDataString, score, isLoadingIssue,
                 resultIssue, attest>>
  /\ UNCHANGED <<walletVars, verifyVars, activeModal, schemaVars, hookVars>>

SetScore(value) ==
  /\ score # value
  /\ score' = value
  /\ UNCHANGED <<schemaUID, schemaDataString, recipientAddress, isLoadingIssue,
                 resultIssue, attest>>
  /\ UNCHANGED <<walletVars, verifyVars, activeModal, schemaVars, hookVars>>

\* the UID handleAttest takes from the value tx.wait() resolved with, or the
\* throw that ends in its catch block
attestationUIDUnchecked(waitResult) ==
  IF waitResult.kind = "string" \/ (waitResult.kind = "object" /\ waitResult.hasUid)
  THEN [thrown |-> FALSE, uid |-> waitResult.uid]
  ELSE [thrown |-> TRUE, uid |-> <<>>]

attestationUID(waitResult) ==
  IF waitResult.kind = "string" \/ (waitResult.kind = "object" /\ waitResult.hasUid)
  THEN IF waitResult.uid = <<>> \/ ~startsWith(waitResult.uid, Str0x)
       THEN [thrown |-> TRUE, uid |-> <<>>]
       ELSE [thrown |-> FALSE, uid |-> waitResult.uid]
  ELSE [thrown |-> TRUE, uid |-> <<>>]

\* a handleAttest that does not validate the recipient
handleAttestAnyRecipient(encodes) ==
  IF ~isReadyToAttest \/ signer = Null
  THEN /\ connectWallet(FALSE)
       /\ UNCHANGED <<isLoadingIssue, resultIssue, attest>>
  ELSE /\ UNCHANGED <<errorMessage, conn>>
       /\ IF schemaUID = <<>> \/ ~startsWith(schemaUID, Str0x) \/ Len(schemaUID) # 66
          THEN UNCHANGED <<isLoadingIssue, resultIssue, attest>>
          ELSE IF schemaDataString = <<>>
          THEN UNCHANGED <<isLoadingIssue, resultIssue, attest>>
          ELSE LET scoreValue == parseInt10(score) IN
               IF scoreValue.isNaN \/ scoreValue.value < 0 \/ scoreValue.value > 100
                  \/ ~encodes
               THEN /\ resultIssue' = Failed
                    /\ isLoadingIssue' = FALSE
                    /\ attest' = Idle
               ELSE /\ resultIssue' = NoResult
                    /\ isLoadingIssue' = TRUE
                    /\ attest' = Suspended("eas.attest", <<>>)

\* handleAttest(), up to `await eas.attest(...)`.  `encodes` is whether the
\* SchemaEncoder built from schemaDataString accepts the score field; a
\* throw inside the try block runs the catch and the finally block at once.
handleAttest(encodes) ==
  IF ~isReadyToAttest \/ signer = Null
  THEN /\ connectWallet(FALSE)
       /\ UNCHANGED <<isLoadingIssue, resultIssue, attest>>
  ELSE /\ UNCHANGED <<errorMessage, conn>>
       /\ IF ~isAddress(recipientAddress)
          THEN /\ resultIssue' = Failed
               /\ UNCHANGED <<isLoadingIssue, attest>>
          ELSE IF schemaUID = <<>> \/ ~startsWith(schemaUID, Str0x) \/ Len(schemaUID) # 66
          THEN UNCHANGED <<isLoadingIssue, resultIssue, attest>>
          ELSE IF schemaDataString = <<>>
          THEN UNCHANGED <<isLoadingIssue, resultIssue, attest>>
          ELSE LET scoreValue == parseInt10(score) IN
               IF scoreValue.isNaN \/ scoreValue.value < 0 \/ scoreValue.value > 100
                  \/ ~encodes
               THEN /\ resultIssue' = Failed
                    /\ isLoadingIssue' = FALSE
                    /\ attest' = Idle
               ELSE /\ resultIssue' = NoResult
                    /\ isLoadingIssue' = TRUE
                    /\ attest' = Suspended("eas.attest", <<>>)

\* The 'Issue Attestation' button is disabled while loading or not ready.
AttestClick(encodes) ==
  /\ ~(isLoadingIssue \/ ~isReadyToAttest)
  /\ handleAttest(encodes)
  /\ UNCHANGED <<schemaUID, schemaDataString, recipientAddress, score>>
  /\ UNCHANGED <<address, provider, signer, isWrongNetwork, walletEnv, mount,
                 sw, lsnProvider, walletHist>>
  /\ UNCHANGED <<verifyVars, activeModal, schemaVars, hookVars>>

\* the catch block and the finally block of handleAttest
attestFailed ==
  /\ resultIssue' = Failed
  /\ isLoadingIssue' = FALSE
  /\ attest' = Idle
  /\ UNCHANGED <<schemaUID, schemaDataString, recipientAddress, score>>
  /\ UNCHANGED <<walletVars, verifyVars, activeModal, schemaVars, hookVars>>

\* eas.attest resolves with the transaction; the run awaits tx.wait()
AttestResolved(txHash) ==
  /\ attest.pc = "eas.attest"
  /\ attest' = Suspended("tx.wait", txHash)
  /\ UNCHANGED <<schemaUID, schemaDataString, recipientAddress, score,
                 isLoadingIssue, resultIssue>>
  /\ UNCHANGED <<walletVars, verifyVars, activeModal, schemaVars, hookVars>>

AttestRejected ==
  /\ attest.pc = "eas.attest"
  /\ attestFailed

\* tx.wait() resolves
AttestWaitResolved(waitResult) ==
  /\ attest.pc = "tx.wait"
  /\ LET extracted == attestationUID(waitResult) IN
     resultIssue' = IF extracted.thrown THEN Failed
                    ELSE Confirmed(extracted.uid, attest.txHash)
  /\ isLoadingIssue' = FALSE
  /\ attest' = Idle
  /\ UNCHANGED <<schemaUID, schemaDataString, recipientAddress, score>>
  /\ UNCHANGED <<walletVars, verifyVars, activeModal, schemaVars, hookVars>>

AttestWaitRejected ==
  /\ attest.pc = "tx.wait"
  /\ attestFailed

(***************************************************************************)
(* The schema modal.                                                       *)
(***************************************************************************)
StrName == <<"s", "c", "o", "r", "e">>
StrUint256 == <<"u", "i", "n", "t", "2", "5", "6">>
StrBool == <<"b", "o", "o", "l">>

\* ids of fields: '1' for the initial field, and what
\* Math.random().toString(36).substr(2, 9) may return
RandomIds == {"k3x9q2m1a", "p7w4z8n5b"}

\* what the user may type into the description and a field name (the name
\* input lower-cases the text and strips white space), and the types listed
SchemaNames == {<<>>, <<" ">>, <<"r", "e", "p">>}
FieldNames == {<<>>, StrName}
FieldTypes == {StrUint256, StrBool}

SchemaInit ==
  /\ schemaName = <<>>
  /\ fields = <<[id |-> "1", name |-> StrName, type |-> StrUint256]>>
  /\ isLoadingSchema = FALSE
  /\ resultSchema = NoResult
  /\ deploy = Idle

isReadyToDeploy ==
  /\ signer # Null
  /\ ~isWrongNetwork
  /\ trim(schemaName) # <<>>
  /\ \A i \in 1 .. Len(fields) :
       trim(fields[i].name) # <<>> /\ trim(fields[i].type) # <<>>

addField(newId) ==
  fields' = Append(fields, [id |-> newId, name |-> <<>>, type |-> StrUint256])

removeField(id) ==
  LET kept(f) == f.id # id IN
  fields' = IF Len(fields) > 1 THEN SelectSeq(fields, kept) ELSE fields

updateField(id, key, value) ==
  fields' = [i \in 1 .. Len(fields) |->
               IF fields[i].id = id THEN [fields[i] EXCEPT ![key] = value]
               ELSE fields[i]]

\* Array.prototype.join
RECURSIVE join(_, _)
join(strs, sep) ==
  IF strs = <<>> THEN <<>>
  ELSE IF Len(strs) = 1 THEN strs[1]
  ELSE strs[1] \o sep \o join(Tail(strs), sep)

generateSchemaString ==
  LET decl(f) == trim(f.type) \o <<" ">> \o trim(f.name)
      twoParts(s) ==
        LET parts == split(s, " ")
        IN Len(parts) = 2 /\ parts[1] # <<>> /\ parts[2] # <<>>
  IN join(SelectSeq([i \in 1 .. Len(fields) |-> decl(fields[i])], twoParts),
          <<",", " ">>)

SetSchemaName(value) ==
  /\ schemaName # value
  /\ schemaName' = value
  /\ UNCHANGED <<fields, isLoadingSchema, resultSchema, deploy>>
  /\ UNCHANGED <<walletVars, verifyVars, activeModal, issueVars, hookVars>>

\* '+ Add Field'
AddFieldClick(newId) ==
  /\ Len(fields) < MaxFields
  /\ addField(newId)
  /\ UNCHANGED <<schemaName, isLoadingSchema, resultSchema, deploy>>
  /\ UNCHANGED <<walletVars, verifyVars, activeModal, issueVars, hookVars>>

\* The remove button of a field is rendered while more than one is listed.
RemoveFieldClick(i) ==
  /\ Len(fields) > 1
  /\ removeField(fields[i].id)
  /\ UNCHANGED <<schemaName, isLoadingSchema, resultSchema, deploy>>
  /\ UNCHANGED <<walletVars, verifyVars, activeModal, issueVars, hookVars>>

\* the onChange handlers of the name input and the type select of a field
UpdateFieldClick(i, key, value) ==
  /\ fields[i][key] # value
  /\ updateField(fields[i].id, key, value)
  /\ UNCHANGED <<schemaName, isLoadingSchema, resultSchema, deploy>>
  /\ UNCHANGED <<walletVars, verifyVars, activeModal, issueVars, hookVars>>

\* the UID handleDeploy takes from the value tx.wait() resolved with, or the
\* throw that ends in its catch block
registeredSchemaUID(waitResult) ==
  IF waitResult.kind = "string" \/ (waitResult.kind = "object" /\ waitResult.hasUid)
  THEN IF waitResult.uid = <<>> \/ ~startsWith(waitResult.uid, Str0x)
       THEN [thrown |-> TRUE, uid |-> <<>>]
       ELSE [thrown |-> FALSE, uid |-> waitResult.uid]
  ELSE [thrown |-> TRUE, uid |-> <<>>]

\* handleDeploy(), up to `await schemaRegistry.register(...)`
handleDeploy ==
  IF ~isReadyToDeploy \/ signer = Null
  THEN /\ connectWallet(FALSE)
       /\ UNCHANGED <<isLoadingSchema, resultSchema, deploy>>
  ELSE /\ UNCHANGED <<errorMessage, conn>>
       /\ IF generateSchemaString = <<>>
          THEN UNCHANGED <<isLoadingSchema, resultSchema, deploy>>
          ELSE /\ isLoadingSchema' = TRUE
               /\ resultSchema' = NoResult
               /\ deploy' = Suspended("schemaRegistry.register", <<>>)

\* The 'Deploy Schema' button is disabled while not ready or loading.
DeployClick ==
  /\ ~(~isReadyToDeploy \/ isLoadingSchema)
  /\ handleDeploy
  /\ UNCHANGED <<schemaName, fields>>
  /\ UNCHANGED <<address, provider, signer, isWrongNetwork, walletEnv, mount,
                 sw, lsnProvider, walletHist>>
  /\ UNCHANGED <<verifyVars, activeModal, issueVars, hookVars>>

\* a catch block that skips the finally block
deployFailedStaysLoading ==
  /\ resultSchema' = Failed
  /\ isLoadingSchema' = isLoadingSchema
  /\ deploy' = Idle
  /\ UNCHANGED <<schemaName, fields>>
  /\ UNCHANGED <<walletVars, verifyVars, activeModal, issueVars, hookVars>>

\* the catch block and the finally block of handleDeploy
deployFailed ==
  /\ resultSchema' = Failed
  /\ isLoadingSchema' = FALSE
  /\ deploy' = Idle
  /\ UNCHANGED <<schemaName, fields>>
  /\ UNCHANGED <<walletVars, verifyVars, activeModal, issueVars, hookVars>>

\* schemaRegistry.register resolves with the transaction; the run awaits
\* tx.wait()
RegisterResolved(txHash) ==
  /\ deploy.pc = "schemaRegistry.register"
  /\ deploy' = Suspended("tx.wait", txHash)
  /\ UNCHANGED <<schemaName, fields, isLoadingSchema, resultSchema>>
  /\ UNCHANGED <<walletVars, verifyVars, activeModal, issueVars, hookVars>>

RegisterRejected ==
  /\ deploy.pc = "schemaRegistry.register"
  /\ deployFailed

\* tx.wait() resolves
DeployWaitResolved(waitResult) ==
  /\ deploy.pc = "tx.wait"
  /\ LET extracted == registeredSchemaUID(waitResult) IN
     resultSchema' = IF extracted.thrown THEN Failed
                     ELSE Confirmed(extracted.uid, deploy.txHash)
  /\ isLoadingSchema' = FALSE
  /\ deploy' = Idle
  /\ UNCHANGED <<schemaName, fields>>
  /\ UNCHANGED <<walletVars, verifyVars, activeModal, issueVars, hookVars>>

DeployWaitRejected ==
  /\ deploy.pc = "tx.wait"
  /\ deployFailed

(***************************************************************************)
(* Opening and closing a modal.                                            *)
(***************************************************************************)
VerifyClosed ==
  /\ searchInput = <<>>
  /\ results = NoResults
  /\ verifyError = Null
  /\ isLoading = FALSE
  /\ search = EmptyBag

\* a button of the page: setActiveModal(btn.id) mounts the modal
OpenModal(modal) ==
  /\ activeModal = Null
  /\ activeModal' = modal
  /\ UNCHANGED <<walletVars, verifyVars, issueVars, schemaVars, hookVars>>

\* onClose: setActiveModal(null) unmounts the modal; what a run of its
\* handlers sets afterwards is set on no component
CloseModal ==
  /\ activeModal # Null
  /\ activeModal' = Null
  /\ searchInput' = <<>>
  /\ results' = NoResults
  /\ verifyError' = Null
  /\ isLoading' = FALSE
  /\ search' = EmptyBag
  /\ schemaUID' = DEFAULT_SCHEMA_UID
  /\ schemaDataString' = DEFAULT_SCHEMA_DATA_STRING
  /\ recipientAddress' = StrDefaultRecipient
  /\ score' = <<"9", "5">>
  /\ isLoadingIssue' = FALSE
  /\ resultIssue' = NoResult
  /\ attest' = Idle
  /\ schemaName' = <<>>
  /\ fields' = <<[id |-> "1", name |-> StrName, type |-> StrUint256]>>
  /\ isLoadingSchema' = FALSE
  /\ resultSchema' = NoResult
  /\ deploy' = Idle
  /\ UNCHANGED <<ledger, registry>>
  /\ UNCHANGED <<walletVars, hookVars>>

(***************************************************************************)
(* The hook version of useWallet.  It keeps the same five state values as  *)
(* WalletProvider, has no mount-time check, and attaches its two handlers  *)
(* in the body of the hook: every render of the component that calls it    *)
(* attaches one more pair, and nothing removes a pair.                     *)
(***************************************************************************)
HookInit ==
  /\ hook = "unmounted"
  /\ hookListeners = <<>>

\* room for one more pair, and for n more suspended connectWallet() calls
ListenerRoom == Len(hookListeners) < MaxListeners
HookRoom(n) == BagCardinality(conn) + n <= MaxSuspended

\* the body of the hook runs: with window.ethereum present it calls
\* ethereum.on('chainChanged', ...) and ethereum.on('accountsChanged', ...)
\* with closures over the provider value of this render
hookAttaches(p) ==
  hookListeners' = IF hasEthereum THEN Append(hookListeners, p) ELSE hookListeners

\* React renders the component again when a setter changed its state
hookRenders ==
  IF walletState' # walletState THEN hookAttaches(provider')
  ELSE hookListeners' = hookListeners

\* the attached chainChanged handlers that go on to call connectWallet()
Reconnecting == {i \in 1 .. Len(hookListeners) : hookListeners[i] # Null}

\* n calls of connectWallet(), each up to its first await
connectWalletTimes(n) ==
  conn' = IF n = 0 THEN conn
          ELSE conn (+) [t \in {[pc |-> "eth_requestAccounts", stale |-> FALSE]} |-> n]

HookMount ==
  /\ hook = "unmounted"
  /\ hook' = "mounted"
  /\ hookAttaches(provider)
  /\ UNCHANGED <<walletVars, verifyVars, activeModal, issueVars, schemaVars>>

\* The component goes away: the hook has no effect and no cleanup, the
\* handlers stay with the provider.
HookUnmount ==
  /\ hook = "mounted"
  /\ hook' = "torn down"
  /\ UNCHANGED hookListeners
  /\ UNCHANGED <<walletVars, verifyVars, activeModal, issueVars, schemaVars>>

\* the component calls connectWallet()
HookConnect ==
  /\ hook = "mounted"
  /\ ListenerRoom
  /\ hasEthereum => HookRoom(1)
  /\ connectWallet(FALSE)
  /\ UNCHANGED hook
  /\ UNCHANGED <<address, provider, signer, isWrongNetwork, walletEnv, mount,
                 sw, lsnProvider, walletHist>>
  /\ UNCHANGED <<verifyVars, activeModal, issueVars, schemaVars>>
  /\ hookRenders

\* the component calls disconnectWallet()
HookDisconnect ==
  /\ hook = "mounted"
  /\ ListenerRoom
  /\ address # Null
  /\ disconnectWallet
  /\ UNCHANGED hook
  /\ UNCHANGED <<walletEnv, walletTasks, walletHist>>
  /\ UNCHANGED <<verifyVars, activeModal, issueVars, schemaVars>>
  /\ hookRenders

HookRequestAccountsResolved(t) ==
  /\ hook = "mounted"
  /\ t.pc = "eth_requestAccounts"
  /\ authorized' = TRUE
  /\ conn' = Put(Take(conn, t), [t EXCEPT !.pc = "getSigner"])
  /\ UNCHANGED <<walletState, hasEthereum, chain, selected, mount, sw,
                 lsnProvider, walletHist>>
  /\ UNCHANGED hookVars
  /\ UNCHANGED <<verifyVars, activeModal, issueVars, schemaVars>>

\* p.getSigner() and s.getAddress() resolve: the four setters run, provider
\* is a new BrowserProvider object, so the component renders again
HookGetSignerResolved(t) ==
  /\ hook = "mounted"
  /\ ListenerRoom
  /\ t.pc = "getSigner"
  /\ authorized
  /\ address' = selected
  /\ provider' = BrowserProvider
  /\ signer' = selected
  /\ errorMessage' = Null
  /\ conn' = Put(Take(conn, t), [t EXCEPT !.pc = "getNetwork"])
  /\ hookAttaches(provider')
  /\ UNCHANGED hook
  /\ UNCHANGED <<isWrongNetwork, walletEnv, mount, sw, lsnProvider, walletHist>>
  /\ UNCHANGED <<verifyVars, activeModal, issueVars, schemaVars>>

HookGetNetworkResolved(t) ==
  /\ hook = "mounted"
  /\ ListenerRoom
  /\ t.pc = "getNetwork"
  /\ checkNetwork(chain)
  /\ conn' = Take(conn, t)
  /\ UNCHANGED hook
  /\ UNCHANGED <<address, provider, signer, walletEnv, mount, sw, lsnProvider,
                 walletHist>>
  /\ UNCHANGED <<verifyVars, activeModal, issueVars, schemaVars>>
  /\ hookRenders

\* a request of the handshake is rejected: the catch block of connectWallet
\* writes the message, the one of checkNetwork only logs
HookRejected(t) ==
  /\ hook = "mounted"
  /\ ListenerRoom
  /\ errorMessage' = IF t.pc = "getNetwork" THEN errorMessage ELSE MsgConnectFailed
  /\ conn' = Take(conn, t)
  /\ UNCHANGED hook
  /\ UNCHANGED <<address, provider, signer, isWrongNetwork, walletEnv, mount,
                 sw, lsnProvider, walletHist>>
  /\ UNCHANGED <<verifyVars, activeModal, issueVars, schemaVars>>
  /\ hookRenders

\* The wallet moves to another chain: every attached chainChanged handler
\* runs.
HookChainChanged(id) ==
  /\ hook = "mounted"
  /\ ListenerRoom
  /\ hookListeners # <<>>
  /\ id # chain
  /\ chain' = id
  /\ IF parseInt16(HexDigits(id)) # TARGET_CHAIN_ID
     THEN /\ isWrongNetwork' = TRUE
          /\ UNCHANGED conn
     ELSE /\ isWrongNetwork' = FALSE
          /\ HookRoom(Cardinality(Reconnecting))
          /\ connectWalletTimes(Cardinality(Reconnecting))
  /\ UNCHANGED hook
  /\ UNCHANGED <<address, provider, signer, errorMessage, hasEthereum,
                 selected, authorized, mount, sw, lsnProvider, walletHist>>
  /\ UNCHANGED <<verifyVars, activeModal, issueVars, schemaVars>>
  /\ hookRenders

\* The wallet revokes access or selects an account: every attached
\* accountsChanged handler runs.
HookAccountsChanged(accounts) ==
  /\ hook = "mounted"
  /\ ListenerRoom
  /\ hookListeners # <<>>
  /\ authorized' = (Len(accounts) > 0)
  /\ selected' = IF Len(accounts) > 0 THEN accounts[1] ELSE selected
  /\ IF Len(accounts) = 0
     THEN /\ disconnectWallet
          /\ UNCHANGED conn
     ELSE /\ HookRoom(Len(hookListeners))
          /\ connectWalletTimes(Len(hookListeners))
          /\ UNCHANGED <<address, provider, signer, errorMessage, isWrongNetwork>>
  /\ UNCHANGED hook
  /\ UNCHANGED <<hasEthereum, chain, mount, sw, lsnProvider, walletHist>>
  /\ UNCHANGED <<verifyVars, activeModal, issueVars, schemaVars>>
  /\ hookRenders

(***************************************************************************)
(* The verify modal: its handlers.                                         *)
(***************************************************************************)
MsgEnterUid == "Please enter an Attestation UID (0x...)"
MsgInvalidUid == "Enter a valid 66-character Attestation UID starting with 0x."
MsgNotReady == "Connect wallet and ensure Rootstock Testnet is selected."
MsgNoAttestation == "No attestation returned for this UID."
MsgNotFound == "No attestation found with UID: "
MsgNoPayload == "Attestation contains no data payload - shown the attestation snapshot."
MsgVerificationFailed == "Verification failed: "

isReadyToSearch == provider # Null /\ ~isWrongNetwork

\* room for one more suspended handleSearch()
SearchRoom == BagCardinality(search) < MaxSearches

\* the wallet session at rest, with or without an account and on or off the
\* target chain, as a modal finds it
SessionAtRest ==
  /\ \E connected \in BOOLEAN :
       /\ address = (IF connected THEN "0xA1" ELSE Null)
       /\ provider = (IF connected THEN BrowserProvider ELSE Null)
       /\ signer = (IF connected THEN "0xA1" ELSE Null)
       /\ lsnProvider = (IF connected THEN BrowserProvider ELSE Null)
  /\ isWrongNetwork \in BOOLEAN
  /\ errorMessage = (IF isWrongNetwork THEN MsgWrongNetwork ELSE Null)
  /\ hasEthereum = TRUE
  /\ chain = (IF isWrongNetwork THEN 30 ELSE TARGET_CHAIN_ID)
  /\ selected = "0xA1"
  /\ authorized = TRUE
  /\ mount = [pc |-> "done"]
  /\ conn = EmptyBag
  /\ sw = EmptyBag
  /\ lastAct = "init"
  /\ resurrected = FALSE
  /\ settled = FALSE

VerifyInit ==
  /\ SessionAtRest
  /\ VerifyClosed
  /\ ledger \in Attestations
  /\ registry \in SchemaRecords
  /\ activeModal = "verify"
  /\ IssueInit
  /\ SchemaInit
  /\ HookInit

\* the user edits the input
SetSearchInput(q) ==
  /\ searchInput # q
  /\ searchInput' = q
  /\ UNCHANGED <<results, verifyError, isLoading, search, ledger, registry>>
  /\ UNCHANGED <<walletVars, pageVars>>

\* a handleSearch whose validation does not test the length of the query
handleSearchAnyLength ==
  LET query == trim(searchInput) IN
  /\ results' = NoResults
  /\ IF query = <<>>
     THEN /\ verifyError' = MsgEnterUid
          /\ UNCHANGED <<isLoading, search>>
     ELSE IF ~startsWith(query, Str0x)
     THEN /\ verifyError' = MsgInvalidUid
          /\ UNCHANGED <<isLoading, search>>
     ELSE IF ~isReadyToSearch \/ provider = Null
     THEN /\ verifyError' = MsgNotReady
          /\ UNCHANGED <<isLoading, search>>
     ELSE /\ verifyError' = Null
          /\ isLoading' = TRUE
          /\ search' = Put(search, [pc |-> "getAttestation", query |-> query])
  /\ UNCHANGED <<searchInput, ledger, registry>>
  /\ UNCHANGED <<walletVars, pageVars>>

\* handleSearch(), up to `await eas.getAttestation(query)`
handleSearch ==
  LET query == trim(searchInput) IN
  /\ results' = NoResults
  /\ IF query = <<>>
     THEN /\ verifyError' = MsgEnterUid
          /\ UNCHANGED <<isLoading, search>>
     ELSE IF ~startsWith(query, Str0x) \/ Len(query) # UID_LENGTH
     THEN /\ verifyError' = MsgInvalidUid
          /\ UNCHANGED <<isLoading, search>>
     ELSE IF ~isReadyToSearch \/ provider = Null
     THEN /\ verifyError' = MsgNotReady
          /\ UNCHANGED <<isLoading, search>>
     ELSE /\ verifyError' = Null
          /\ isLoading' = TRUE
          /\ search' = Put(search, [pc |-> "getAttestation", query |-> query])
  /\ UNCHANGED <<searchInput, ledger, registry>>
  /\ UNCHANGED <<walletVars, pageVars>>

\* The 'Verify UID' button is disabled while loading or not ready.
SearchClick ==
  /\ ~isLoading /\ isReadyToSearch
  /\ SearchRoom
  /\ handleSearch

\* Enter in the input calls handleSearch() whatever isLoading is.
SearchEnter ==
  /\ SearchRoom
  /\ handleSearch

\* a handleSearch that does not test the recipient against ZERO_ADDRESS
GetAttestationResolvedAnyRecipient(t) ==
  /\ t.pc = "getAttestation"
  /\ IF ~ledger.exists \/ ledger.recipient = Undefined
     THEN /\ verifyError' = MsgNoAttestation
          /\ isLoading' = FALSE
          /\ search' = Take(search, t)
          /\ UNCHANGED results
     ELSE IF falsyData(ledger.data) \/ ledger.data = Sentinel
     THEN /\ results' = Results(<<snapshot(ledger, t.query)>>)
          /\ verifyError' = MsgNoPayload
          /\ isLoading' = FALSE
          /\ search' = Take(search, t)
     ELSE /\ search' = Put(Take(search, t), [t EXCEPT !.pc = "getSchema"])
          /\ UNCHANGED <<results, verifyError, isLoading>>
  /\ UNCHANGED <<searchInput, ledger, registry>>
  /\ UNCHANGED <<walletVars, pageVars>>

\* eas.getAttestation resolves with the ledger's record: the not-found
\* returns, the snapshot of a record without payload, or decodeAttestation up
\* to `await schemaRegistry.getSchema`.  Each return passes the finally block.
GetAttestationResolved(t) ==
  /\ t.pc = "getAttestation"
  /\ IF ~ledger.exists \/ ledger.recipient = Undefined
     THEN /\ verifyError' = MsgNoAttestation
          /\ isLoading' = FALSE
          /\ search' = Take(search, t)
          /\ UNCHANGED results
     ELSE IF ledger.recipient = ZERO_ADDRESS
     THEN /\ verifyError' = MsgNotFound
          /\ isLoading' = FALSE
          /\ search' = Take(search, t)
          /\ UNCHANGED results
     ELSE IF falsyData(ledger.data) \/ ledger.data = Sentinel
     THEN /\ results' = Results(<<snapshot(ledger, t.query)>>)
          /\ verifyError' = MsgNoPayload
          /\ isLoading' = FALSE
          /\ search' = Take(search, t)
     ELSE /\ search' = Put(Take(search, t), [t EXCEPT !.pc = "getSchema"])
          /\ UNCHANGED <<results, verifyError, isLoading>>
  /\ UNCHANGED <<searchInput, ledger, registry>>
  /\ UNCHANGED <<walletVars, pageVars>>

\* eas.getAttestation rejects: the outer catch and the finally block
GetAttestationRejected(t) ==
  /\ t.pc = "getAttestation"
  /\ verifyError' = MsgVerificationFailed
  /\ isLoading' = FALSE
  /\ search' = Take(search, t)
  /\ UNCHANGED <<searchInput, results, ledger, registry>>
  /\ UNCHANGED <<walletVars, pageVars>>

\* schemaRegistry.getSchema resolves: the rest of decodeAttestation, then
\* setResults([formatted]) and the finally block
GetSchemaResolved(t) ==
  /\ t.pc = "getSchema"
  /\ results' = Results(<<decodeAttestation(ledger, t.query,
                                           extractSchemaString(registry))>>)
  /\ isLoading' = FALSE
  /\ search' = Take(search, t)
  /\ UNCHANGED <<searchInput, verifyError, ledger, registry>>
  /\ UNCHANGED <<walletVars, pageVars>>

\* a decodeAttestation that lets the rejection of getSchema escape to the
\* catch blocks of handleSearch
GetSchemaRejectedEscapes(t) ==
  /\ t.pc = "getSchema"
  /\ verifyError' = MsgVerificationFailed
  /\ isLoading' = FALSE
  /\ search' = Take(search, t)
  /\ UNCHANGED <<searchInput, results, ledger, registry>>
  /\ UNCHANGED <<walletVars, pageVars>>

\* schemaRegistry.getSchema rejects: decodeAttestation goes on with an empty
\* schema string
GetSchemaRejected(t) ==
  /\ t.pc = "getSchema"
  /\ results' = Results(<<decodeAttestation(ledger, t.query, <<>>)>>)
  /\ isLoading' = FALSE
  /\ search' = Take(search, t)
  /\ UNCHANGED <<searchInput, verifyError, ledger, registry>>
  /\ UNCHANGED <<walletVars, pageVars>>

VerifyNext ==
  \/ \E q \in Queries : SetSearchInput(q)
  \/ SearchClick
  \/ SearchEnter
  \/ \E t \in BagToSet(search) : GetAttestationResolved(t)
  \/ \E t \in BagToSet(search) : GetAttestationRejected(t)
  \/ \E t \in BagToSet(search) : GetSchemaResolved(t)
  \/ \E t \in BagToSet(search) : GetSchemaRejected(t)

SpecVerify == VerifyInit /\ [][VerifyNext]_vars

(***************************************************************************)
(* The wallet session, with the verify modal closed.                       *)
(***************************************************************************)
NoAttestation ==
  [exists |-> FALSE, recipient |-> Undefined, data |-> NoData,
   revocationTime |-> NoTime, time |-> NoTime]

Init ==
  /\ WalletInit
  /\ VerifyClosed
  /\ ledger = NoAttestation
  /\ registry = NullRecord
  /\ activeModal = Null
  /\ IssueInit
  /\ SchemaInit
  /\ HookInit

\* the lists an accountsChanged notification may deliver
AccountLists == {<<>>} \cup {<<a>> : a \in Accounts}

Next ==
  \/ MountEffects
  \/ ListenerEffect
  \/ MountAccountsResolved
  \/ MountGetSignerResolved
  \/ MountGetNetworkResolved
  \/ MountRejected
  \/ ConnectClick
  \/ \E t \in BagToSet(conn) : RequestAccountsResolved(t)
  \/ \E t \in BagToSet(conn) : RequestAccountsRejected(t)
  \/ \E t \in BagToSet(conn) : GetSignerResolved(t)
  \/ \E t \in BagToSet(conn) : GetSignerRejected(t)
  \/ \E t \in BagToSet(conn) : GetNetworkResolved(t)
  \/ \E t \in BagToSet(conn) : GetNetworkRejected(t)
  \/ DisconnectClick
  \/ \E id \in ChainIds : ChainChanged(id)
  \/ \E accounts \in AccountLists : AccountsChanged(accounts)
  \/ SwitchClick
  \/ \E t \in BagToSet(sw) : SwitchResolved(t)
  \/ \E t \in BagToSet(sw), code \in SwitchErrorCodes : SwitchRejected(t, code)
  \/ \E t \in BagToSet(sw) : AddResolved(t)
  \/ \E t \in BagToSet(sw) : AddRejected(t)

Spec == Init /\ [][Next]_vars

(***************************************************************************)
(* The page with its three modals, over a wallet session at rest.          *)
(***************************************************************************)
\* the records the collaborators hold: no attestation, or one with a payload
PageLedgers ==
  { NoAttestation,
    [exists |-> TRUE, recipient |-> Recipient, data |-> Hex(<<95>>),
     revocationTime |-> NoTime, time |-> NoTime] }
PageRecords == {NullRecord, StringRecord(StrScore)}

PageInit ==
  /\ SessionAtRest
  /\ VerifyClosed
  /\ ledger \in PageLedgers
  /\ registry \in PageRecords
  /\ activeModal = Null
  /\ IssueInit
  /\ SchemaInit
  /\ HookInit

\* a collaborator answers a suspended run of handleSearch, handleAttest or
\* handleDeploy
PageResponds ==
  \/ activeModal = "verify" /\ \E t \in BagToSet(search) :
       \/ GetAttestationResolved(t)
       \/ GetAttestationRejected(t)
       \/ GetSchemaResolved(t)
       \/ GetSchemaRejected(t)
  \/ activeModal = "issue" /\
       \/ \E txHash \in TxHashes : AttestResolved(txHash)
       \/ AttestRejected
       \/ \E waitResult \in WaitResults : AttestWaitResolved(waitResult)
       \/ AttestWaitRejected
  \/ activeModal = "schema" /\
       \/ \E txHash \in TxHashes : RegisterResolved(txHash)
       \/ RegisterRejected
       \/ \E waitResult \in WaitResults : DeployWaitResolved(waitResult)
       \/ DeployWaitRejected

PageNext ==
  \/ \E modal \in ModalTypes : OpenModal(modal)
  \/ CloseModal
  \/ activeModal = "verify" /\ \E q \in Queries : SetSearchInput(q)
  \/ activeModal = "verify" /\ SearchClick
  \/ activeModal = "verify" /\ SearchEnter
  \/ activeModal = "verify" /\ \E t \in BagToSet(search) : GetAttestationResolved(t)
  \/ activeModal = "verify" /\ \E t \in BagToSet(search) : GetAttestationRejected(t)
  \/ activeModal = "verify" /\ \E t \in BagToSet(search) : GetSchemaResolved(t)
  \/ activeModal = "verify" /\ \E t \in BagToSet(search) : GetSchemaRejected(t)
  \/ activeModal = "issue" /\ \E value \in SchemaUids : SetSchemaUID(value)
  \/ activeModal = "issue" /\ \E value \in SchemaDataStrings : SetSchemaDataString(value)
  \/ activeModal = "issue" /\ \E value \in RecipientAddresses : SetRecipientAddress(value)
  \/ activeModal = "issue" /\ \E value \in Scores : SetScore(value)
  \/ activeModal = "issue" /\ \E encodes \in BOOLEAN : AttestClick(encodes)
  \/ activeModal = "issue" /\ \E txHash \in TxHashes : AttestResolved(txHash)
  \/ activeModal = "issue" /\ AttestRejected
  \/ activeModal = "issue" /\ \E waitResult \in WaitResults : AttestWaitResolved(waitResult)
  \/ activeModal = "issue" /\ AttestWaitRejected
  \/ activeModal = "schema" /\ \E value \in SchemaNames : SetSchemaName(value)
  \/ activeModal = "schema" /\ \E newId \in RandomIds : AddFieldClick(newId)
  \/ activeModal = "schema" /\ \E i \in 1 .. Len(fields) : RemoveFieldClick(i)
  \/ activeModal = "schema" /\ \E i \in 1 .. Len(fields), value \in FieldNames :
       UpdateFieldClick(i, "name", value)
  \/ activeModal = "schema" /\ \E i \in 1 .. Len(fields), value \in FieldTypes :
       UpdateFieldClick(i, "type", value)
  \/ activeModal = "schema" /\ DeployClick
  \/ activeModal = "schema" /\ \E txHash \in TxHashes : RegisterResolved(txHash)
  \/ activeModal = "schema" /\ RegisterRejected
  \/ activeModal = "schema" /\ \E waitResult \in WaitResults : DeployWaitResolved(waitResult)
  \/ activeModal = "schema" /\ DeployWaitRejected

SpecPage == PageInit /\ [][PageNext]_vars

\* every collaborator call eventually resolves or rejects
FairSpecPage == PageInit /\ [][PageNext]_vars /\ WF_vars(PageResponds)

(***************************************************************************)
(* A component that calls the hook version of useWallet.                   *)
(***************************************************************************)
HookNext ==
  \/ HookMount
  \/ HookUnmount
  \/ HookConnect
  \/ HookDisconnect
  \/ \E t \in BagToSet(conn) : HookRequestAccountsResolved(t)
  \/ \E t \in BagToSet(conn) : HookGetSignerResolved(t)
  \/ \E t \in BagToSet(conn) : HookGetNetworkResolved(t)
  \/ \E t \in BagToSet(conn) : HookRejected(t)
  \/ \E id \in ChainIds : HookChainChanged(id)
  \/ \E accounts \in AccountLists : HookAccountsChanged(accounts)

SpecHook == Init /\ [][HookNext]_vars

(***************************************************************************)
(* Properties of the wallet session.                                       *)
(***************************************************************************)

\* C1: in every reachable state isWrongNetwork is true if and only if an
\* address is set and the provider's chain differs from the target chain 31.
C1_WrongNetworkIffConnectedOffTarget ==
  isWrongNetwork <=> (address # Null /\ chain # TARGET_CHAIN_ID)

\* C3: after disconnectWallet() a chainChanged notification never starts a
\* handshake for the disconnected session, so no account is ever written by
\* such a handshake.
C3_ChainChangeDoesNotResurrect == ~resurrected

\* C4: at no time are two connectWallet() handshakes in flight.
C4_SingleHandshakeInFlight == BagCardinality(conn) <= 1

\* C5: handling a chainChanged notification issues no eth_requestAccounts
\* request, whatever the delivered id and the session state.
C5_ChainChangedRequestsNoAccounts ==
  [][lastAct' = "handleChainChanged" =>
       Pending(conn, "eth_requestAccounts")' = Pending(conn, "eth_requestAccounts")]_vars

\* C6: once handleChainChanged has processed a delivered id, isWrongNetwork is
\* false if the id is the target chain, whatever the state before, and true
\* if it differs while an address is set; and no step other than a chain
\* change, a connectWallet step or a disconnectWallet changes a status that
\* matches the chain.
C6_AfterChainChanged ==
  lastAct = "handleChainChanged" =>
    /\ chain = TARGET_CHAIN_ID => ~isWrongNetwork
    /\ (chain # TARGET_CHAIN_ID /\ address # Null) => isWrongNetwork

C6_StatusPersists ==
  (/\ lastAct' \notin {"handleChainChanged", "connectWallet", "disconnectWallet"}
   /\ isWrongNetwork = (chain # TARGET_CHAIN_ID))
  => isWrongNetwork' = isWrongNetwork

C6_ChainChangedSetsStatus == []C6_AfterChainChanged /\ [][C6_StatusPersists]_vars

C6_Witness ==
  /\ lastAct = "handleChainChanged"
  /\ chain # TARGET_CHAIN_ID
  /\ address # Null
  /\ isWrongNetwork

\* C7: switchNetwork() issues wallet_addEthereumChain with the RSK_TESTNET
\* descriptor if and only if its wallet_switchEthereumChain request was
\* rejected with code 4902: once, after that rejection, and with no second
\* switch request.
C7_AddOnlyAfter4902 ==
  \A t \in BagToSet(sw) :
    /\ t.nSwitch = 1
    /\ t.pc = "wallet_switchEthereumChain" => t.nAdd = 0 /\ t.desc = Null
    /\ t.pc = "wallet_addEthereumChain" =>
         /\ t.code = UNRECOGNIZED_CHAIN
         /\ t.nAdd = 1
         /\ t.desc = RSK_TESTNET.chainName

C7_AddAfterEvery4902 ==
  \A t \in BagToSet(sw) :
    SwitchRejected(t, UNRECOGNIZED_CHAIN) =>
      Pending(sw, "wallet_addEthereumChain")' = Pending(sw, "wallet_addEthereumChain") + 1

C7_AddChainIffUnrecognized == []C7_AddOnlyAfter4902 /\ [][C7_AddAfterEvery4902]_vars

C7_Witness ==
  \E t \in BagToSet(sw) : t.pc = "wallet_addEthereumChain" /\ t.code = UNRECOGNIZED_CHAIN

\* C8: no step of switchNetwork() changes address, provider, signer or
\* isWrongNetwork; a switch request rejected with a code other than 4902
\* changes errorMessage, to the rejection message, and nothing else of the
\* session.
C8_SwitchFrame ==
  lastAct' = "switchNetwork" =>
    /\ UNCHANGED <<address, provider, signer, isWrongNetwork>>
    /\ \A t \in BagToSet(sw), code \in SwitchErrorCodes \ {UNRECOGNIZED_CHAIN} :
         SwitchRejected(t, code) =>
           /\ errorMessage' = MsgSwitchRejected
           /\ UNCHANGED <<mount, conn, lsnProvider>>

C8_SwitchNetworkLeavesSession == [][C8_SwitchFrame]_vars

C8_Witness == lastAct = "switchNetwork" /\ errorMessage = MsgSwitchRejected

\* C9: disconnectWallet(), from any state, sets address, provider, signer and
\* errorMessage to null and isWrongNetwork to false, issues no request, and
\* run a second time changes nothing.
C9_DisconnectStep ==
  lastAct' = "disconnectWallet" =>
    /\ address' = Null /\ provider' = Null /\ signer' = Null
    /\ errorMessage' = Null /\ isWrongNetwork' = FALSE
    /\ UNCHANGED <<mount, conn, sw>>
    /\ lastAct = "disconnectWallet" => walletState' = walletState

C9_DisconnectClearsSession == [][C9_DisconnectStep]_vars

C9_Witness ==
  /\ lastAct = "disconnectWallet"
  /\ address = Null
  /\ mount.pc = "getNetwork"
  /\ BagCardinality(conn) > 0

(***************************************************************************)
(* Properties of the verify modal.                                         *)
(***************************************************************************)
\* the payload is non-empty and can be decoded against the schema string
Decodable(schemaString, dataHex) ==
  /\ dataHex.defined /\ hexLength(dataHex) > 2
  /\ schemaString # <<>>
  /\ ~safeDecodeThrows(schemaString, dataHex)

\* revocationTime is present and non-zero
Revoked(rev) == rev.type # Undefined /\ rev.n # 0

\* C2: a result built for a record with a non-empty payload and a non-empty
\* schema string that the payload satisfies has in decodedData one entry per
\* schema field, in the schema's order, each value as display text.
C2_DecodedDataFollowsSchema ==
  \A i \in 1 .. Len(results.items) :
    LET r == results.items[i]
    IN Decodable(r.schema, r.rawDataHex) =>
         r.decodedData = safeDecodeWithSchema(r.schema, r.rawDataHex)

\* C10: for a fetched record whose payload is empty, absent or '0x',
\* handleSearch makes no schema lookup and its result has decodedData empty,
\* schema empty, rawDataHex equal to '0x' and a status taken from
\* revocationTime (Revoked when it is non-zero, Valid when it is absent).
C10_EmptyPayloadYieldsSentinel ==
  (falsyData(ledger.data) \/ ledger.data = Sentinel) =>
    /\ Pending(search, "getSchema") = 0
    /\ \A i \in 1 .. Len(results.items) :
         LET r == results.items[i]
         IN /\ r.decodedData = <<>>
            /\ r.schema = <<>>
            /\ r.rawDataHex = Sentinel
            /\ Revoked(ledger.revocationTime) => r.status = "Revoked"
            /\ ledger.revocationTime.type = Undefined => r.status = "Valid"

\* C11: on every path that builds a result, its status is Revoked if and only
\* if revocationTime is present and non-zero, as a number, a bigint or a
\* numeric string, and Valid otherwise.
C11_StatusRevokedIffNonZero ==
  \A i \in 1 .. Len(results.items) :
    results.items[i].status =
      (IF Revoked(ledger.revocationTime) THEN "Revoked" ELSE "Valid")

\* the payload of the ledger's record is non-empty and the schema string the
\* lookup yields cannot decode it
Undecodable ==
  /\ ledger.data.defined /\ hexLength(ledger.data) > 2
  /\ safeDecodeThrows(extractSchemaString(registry), ledger.data)

\* C12: for a record whose non-empty payload cannot be decoded against the
\* looked-up schema, the verify flow ends without an error raised to
\* handleSearch and with one result whose decodedData is empty, whose
\* rawDataHex is the record's payload and whose schema is the schema string
\* when the lookup obtained one.
C12_UndecodableResult ==
  Undecodable =>
    \A i \in 1 .. Len(results.items) :
      LET r == results.items[i]
      IN /\ r.decodedData = <<>>
         /\ r.rawDataHex = ledger.data
         /\ r.schema \in {extractSchemaString(registry), <<>>}

C12_DecodeStep ==
  \A t \in BagToSet(search) :
    (Undecodable /\ t.pc = "getSchema" /\ search' = Take(search, t)) =>
      /\ ~results'.isNull /\ Len(results'.items) = 1
      /\ verifyError' = verifyError
      /\ ~isLoading'
      /\ GetSchemaResolved(t) =>
           results'.items[1].schema = extractSchemaString(registry)

C12_DecodeFailureKeepsRawPayload == []C12_UndecodableResult /\ [][C12_DecodeStep]_vars

C12_Witness ==
  /\ Undecodable
  /\ ~results.isNull
  /\ \E i \in 1 .. Len(results.items) :
       /\ results.items[i].schema = StrScorePassed
       /\ results.items[i].rawDataHex = Hex(<<95>>)

(***************************************************************************)
(* Properties of the wallet session: failures.                             *)
(***************************************************************************)
\* a provider request of the session is rejected in this step
RequestRejected ==
  \/ \E t \in BagToSet(conn) :
       \/ RequestAccountsRejected(t)
       \/ GetSignerRejected(t)
       \/ GetNetworkRejected(t)
  \/ \E t \in BagToSet(sw) :
       \/ AddRejected(t)
       \/ \E code \in SwitchErrorCodes \ {UNRECOGNIZED_CHAIN} : SwitchRejected(t, code)
  \/ (MountRejected /\ ~MountAccountsResolved)

\* C13: whenever a provider request of the wallet session is rejected
\* (eth_requestAccounts, getSigner, getNetwork, the switch and
\* add-chain requests, the mount-time check), errorMessage is non-null
\* afterwards.
C13_RejectionSetsErrorMessage == [][RequestRejected => errorMessage' # Null]_vars

(***************************************************************************)
(* Properties of extractSchemaString, over the lookup results the registry *)
(* answers with.                                                           *)
(***************************************************************************)
\* the string .schema fields of a lookup result
SchemaFields(record) ==
  {i \in 1 .. Len(record.entries) :
     record.entries[i].key = "schema" /\ record.entries[i].val.t = "string"}

\* C14: extractSchemaString returns a string for every shape of lookup
\* result, returns the .schema field of a result that carries a string one,
\* and applied to its own result returns that result.
C14_ExtractTotalIdempotent ==
  LET s == extractSchemaString(registry)
  IN /\ DOMAIN s = 1 .. Len(s)
     /\ \A i \in SchemaFields(registry) : s = registry.entries[i].val.str
     /\ extractSchemaString(StringRecord(s)) = s

C14_Witness ==
  /\ SchemaFields(registry) # {}
  /\ ~results.isNull
  /\ \E i \in 1 .. Len(results.items) :
       /\ results.items[i].schema = extractSchemaString(registry)
       /\ results.items[i].schema # <<>>

\* the enumerable values that are strings longer than 8 characters, in
\* enumeration order
RECURSIVE LongStrings(_)
LongStrings(entries) ==
  IF entries = <<>> THEN <<>>
  ELSE (IF Head(entries).val.t = "string" /\ Len(Head(entries).val.str) > 8
        THEN <<Head(entries).val.str>> ELSE <<>>)
       \o LongStrings(Tail(entries))

\* the first of them with a type-grammar marker, else the first, else ''
RECURSIVE FirstMarked(_)
FirstMarked(strings) ==
  IF strings = <<>> THEN <<>>
  ELSE IF hasTypeMarker(Head(strings)) THEN Head(strings)
  ELSE FirstMarked(Tail(strings))

\* C15: for an object or array-like lookup result without a string .schema
\* field, extractSchemaString returns the first string longer than 8
\* characters that contains a type-grammar marker, else the first string
\* longer than 8 characters, else the empty string.
C15_ExtractPrefersMarkedString ==
  (registry.kind = "object" /\ SchemaFields(registry) = {}) =>
    LET strings == LongStrings(registry.entries)
        s == extractSchemaString(registry)
    IN IF FirstMarked(strings) # <<>> THEN s = FirstMarked(strings)
       ELSE IF strings # <<>> THEN s = strings[1]
       ELSE s = <<>>

C15_Witness ==
  /\ registry.kind = "object" /\ SchemaFields(registry) = {}
  /\ LongStrings(registry.entries) # <<>>
  /\ FirstMarked(LongStrings(registry.entries)) # LongStrings(registry.entries)[1]
  /\ ~results.isNull
  /\ \E i \in 1 .. Len(results.items) :
       results.items[i].schema = FirstMarked(LongStrings(registry.entries))

(***************************************************************************)
(* Properties of handleSearch: validation.                                 *)
(***************************************************************************)
\* the trimmed query is empty, does not start with '0x' or is not 66
\* characters long
Malformed(input) ==
  LET q == trim(input)
  IN \/ q = <<>>
     \/ Len(q) < 2 \/ q[1] # "0" \/ q[2] # "x"
     \/ Len(q) # 66

\* C16: a handleSearch() run on a malformed query issues no request, sets
\* errorMessage, leaves results null and does not touch isLoading.
C16_MalformedStep ==
  ((SearchClick \/ SearchEnter) /\ Malformed(searchInput)) =>
    /\ search' = search
    /\ verifyError' \in {MsgEnterUid, MsgInvalidUid}
    /\ results' = NoResults
    /\ isLoading' = isLoading

C16_MalformedQueryNoRequest == [][C16_MalformedStep]_vars

C16_Witness ==
  /\ Malformed(searchInput)
  /\ verifyError = MsgInvalidUid
  /\ results.isNull
  /\ isLoading /\ BagCardinality(search) = 1

(***************************************************************************)
(* Properties of the wallet session: connecting and disconnecting.         *)
(***************************************************************************)
\* C17: connectWallet() without an injected provider sets errorMessage to the
\* provider-unavailable message, issues no request and leaves address,
\* provider, signer and isWrongNetwork as they were.
C17_NoProviderStep ==
  (ConnectClick /\ ~hasEthereum) =>
    /\ errorMessage' = MsgNoWallet
    /\ UNCHANGED <<address, provider, signer, isWrongNetwork>>
    /\ UNCHANGED <<conn, sw, mount>>

C17_ConnectWithoutProvider == [][C17_NoProviderStep]_vars

C17_Witness ==
  /\ ~hasEthereum
  /\ lastAct = "connectWallet"
  /\ errorMessage = MsgNoWallet

\* the step ends a handshake successfully: getSigner (and with it
\* getAddress) resolves for a call that went through eth_requestAccounts (or
\* eth_accounts at mount), and the address is that of the signer
HandshakeCompletes ==
  \/ \E t \in BagToSet(conn) :
       t.pc = "getSigner" /\ GetSignerResolved(t) /\ address' = signer'
  \/ mount.pc = "getSigner" /\ MountGetSignerResolved /\ address' = signer'

\* C18: address becomes non-null only in the step that completes a
\* successful handshake, and a rejected request never sets it.
C18_AddressStep ==
  /\ (address' # Null /\ address' # address) => HandshakeCompletes
  /\ RequestRejected => address' = address

C18_AddressOnlyAfterHandshake == [](Init => address = Null) /\ [][C18_AddressStep]_vars

C18_Witness ==
  /\ address # Null
  /\ lastAct = "checkExistingConnection"
  /\ mount.pc = "done"
  /\ errorMessage = MsgConnectFailed

\* C19: an accountsChanged notification with an empty list leaves address,
\* provider, signer and errorMessage null and isWrongNetwork false, as
\* disconnectWallet() does, and issues no request.
C19_EmptyListStep ==
  AccountsChanged(<<>>) =>
    /\ address' = Null /\ provider' = Null /\ signer' = Null
    /\ errorMessage' = Null /\ isWrongNetwork' = FALSE
    /\ UNCHANGED <<conn, sw, mount>>

C19_EmptyAccountsDisconnects == [][C19_EmptyListStep]_vars

C19_Witness ==
  /\ lastAct = "disconnectWallet"
  /\ ~authorized
  /\ address = Null
  /\ BagCardinality(conn) > 0

\* C20: errorMessage is null after a connectWallet() that completes on the
\* target chain, after disconnectWallet(), after a switchNetwork() whose
\* switch or add-chain request succeeds, and after a chainChanged
\* notification to the target chain has been handled.
C20_SuccessStep ==
  /\ lastAct' = "disconnectWallet" => errorMessage' = Null
  /\ \A t \in BagToSet(conn) :
       (GetNetworkResolved(t) /\ chain = TARGET_CHAIN_ID) => errorMessage' = Null
  /\ \A t \in BagToSet(sw) :
       (SwitchResolved(t) \/ AddResolved(t)) => errorMessage' = Null
  /\ (ChainChanged(TARGET_CHAIN_ID) /\ conn' = conn) => errorMessage' = Null

C20_SuccessClearsErrorMessage == [][C20_SuccessStep]_vars

(***************************************************************************)
(* Properties of the verify modal: lookups that fail.                      *)
(***************************************************************************)
\* C21: when the schema lookup of a record with a non-empty payload throws,
\* decodeAttestation still returns a result: schema empty, decodedData empty,
\* rawDataHex the record's payload, status and issuedOn as for any record.
C21_LookupFailureStep ==
  \A t \in BagToSet(search) :
    GetSchemaRejected(t) =>
      /\ ~results'.isNull /\ Len(results'.items) = 1
      /\ LET r == results'.items[1]
         IN /\ r.schema = <<>>
            /\ r.decodedData = <<>>
            /\ r.rawDataHex = ledger.data /\ hexLength(r.rawDataHex) > 2
            /\ r.status = (IF Revoked(ledger.revocationTime) THEN "Revoked" ELSE "Valid")
            /\ r.issuedOn.known = (ledger.time.type # Undefined /\ ledger.time.n # 0)
            /\ r.issuedOn.known => r.issuedOn.second = ledger.time.n
      /\ verifyError' = verifyError

C21_LookupFailureNotFatal == [][C21_LookupFailureStep]_vars

C21_Witness ==
  /\ extractSchemaString(registry) # <<>>
  /\ ~results.isNull
  /\ \E i \in 1 .. Len(results.items) :
       /\ results.items[i].schema = <<>>
       /\ hexLength(results.items[i].rawDataHex) > 2
       /\ results.items[i].status = "Revoked"

\* the record eas.getAttestation answers with is the not-found signal
NotFound ==
  ~ledger.exists \/ ledger.recipient = Undefined \/ ledger.recipient = ZERO_ADDRESS

\* C22: when the fetch answers with the not-found signal, handleSearch
\* reports it through errorMessage, leaves results null, makes no schema
\* lookup and ends with isLoading false.
C22_NotFoundStep ==
  \A t \in BagToSet(search) :
    (NotFound /\ t.pc = "getAttestation" /\ GetAttestationResolved(t)) =>
      /\ verifyError' \in {MsgNoAttestation, MsgNotFound}
      /\ results'.isNull
      /\ Pending(search, "getSchema")' = 0
      /\ search' = Take(search, t)
      /\ ~isLoading'

C22_NotFoundReported == [][C22_NotFoundStep]_vars

C22_Witness ==
  /\ ledger.recipient = ZERO_ADDRESS
  /\ verifyError = MsgNotFound
  /\ results.isNull
  /\ ~isLoading

\* C26: at most one handleSearch() run is in flight at any time.
C26_SingleSearchInFlight == BagCardinality(search) <= 1

(***************************************************************************)
(* Properties of the listeners of the hook version of useWallet.           *)
(***************************************************************************)
\* C23: at any time at most one chainChanged handler and at most one
\* accountsChanged handler of the session are attached to the provider, and
\* none remains attached after teardown.
C23_ListenersAttachedOnce ==
  /\ Len(hookListeners) <= 1
  /\ hook = "torn down" => hookListeners = <<>>

(***************************************************************************)
(* Properties of the wallet session: handshakes in flight.                 *)
(***************************************************************************)
\* C24: once disconnectWallet() has run, a handshake that was in flight when
\* it ran does not set the account.  A handshake started after the
\* disconnect needs more than one step to complete, so the step that follows
\* a disconnect leaves address null.
C24_DisconnectCancelsHandshakes ==
  [][lastAct = "disconnectWallet" => address' = Null]_vars

\* C25: after an accountsChanged notification with a non-empty list, once
\* every handshake in flight has completed successfully, address is the
\* account selected in the provider and signer belongs to it, whatever the
\* order in which the handshakes completed.
C25_AccountRefreshed ==
  (settled /\ conn = EmptyBag /\ mount.pc = "done") =>
    (address = selected /\ signer = selected)

C25_Witness ==
  /\ settled
  /\ conn = EmptyBag
  /\ mount.pc = "done"
  /\ address = selected
  /\ resurrected
  /\ lastAct = "connectWallet"

(***************************************************************************)
(* Properties of the issue and schema modals.                              *)
(***************************************************************************)
\* the score texts whose leading integer lies in 0 .. 100
ScoresInRange == {<<"0">>, <<"9", "5">>, <<"9", ".", "5">>, <<"1", "0", "0">>}

\* the step submits an attestation: a run of handleAttest reaches eas.attest
Submits == attest.pc # "eas.attest" /\ attest'.pc = "eas.attest"

\* C27: handleAttest submits an attestation (eas.attest) only if, at the
\* time of the call, a signer is present, isWrongNetwork is false, the
\* recipient is a valid address, the schema UID starts with '0x' and has 66
\* characters, the schema data string is not empty and the score parses to
\* an integer from 0 to 100; in every other case it submits nothing.
C27_SubmitStep ==
  Submits =>
    /\ signer # Null
    /\ ~isWrongNetwork
    /\ isAddress(recipientAddress)
    /\ SubSeq(schemaUID, 1, 2) = <<"0", "x">>
    /\ Len(schemaUID) = 66
    /\ schemaDataString # <<>>
    /\ score \in ScoresInRange

C27_AttestOnlyWhenValid == [][C27_SubmitStep]_vars

C27_Witness ==
  /\ attest.pc = "eas.attest"
  /\ isLoadingIssue
  /\ recipientAddress = StrRecipient
  /\ score = <<"9", ".", "5">>

\* a run of a handler ends in this step
SearchRunEnds == BagCardinality(search') < BagCardinality(search)
AttestRunEnds == attest.pc # "idle" /\ attest'.pc = "idle"
DeployRunEnds == deploy.pc # "idle" /\ deploy'.pc = "idle"

\* C28: a run of handleSearch, handleAttest or handleDeploy that set
\* isLoading leaves it false when it ends, however it ends; isLoading is
\* never true with no run in progress; and, every collaborator call being
\* answered, a modal that is loading eventually is not.
C28_RunEndStep ==
  /\ SearchRunEnds => ~isLoading'
  /\ AttestRunEnds => ~isLoadingIssue'
  /\ DeployRunEnds => ~isLoadingSchema'

C28_LoadingEnds ==
  /\ [][C28_RunEndStep]_vars
  /\ [](isLoading => search # EmptyBag)
  /\ [](isLoadingIssue => attest.pc # "idle")
  /\ [](isLoadingSchema => deploy.pc # "idle")
  /\ (isLoading ~> ~isLoading)
  /\ (isLoadingIssue ~> ~isLoadingIssue)
  /\ (isLoadingSchema ~> ~isLoadingSchema)

C28_Witness ==
  /\ activeModal = "schema"
  /\ ~isLoadingSchema
  /\ deploy.pc = "idle"
  /\ resultSchema.status = "Failed"

\* a result state is null or well-formed
WellFormed(result) ==
  /\ result.status \in {Null, "Confirmed", "Failed"}
  /\ result.status = "Confirmed" =>
       result.uid # <<>> /\ SubSeq(result.uid, 1, 2) = <<"0", "x">>
  /\ result.status = "Failed" => result.uid = <<>> /\ result.txHash = <<>>

\* C29: in the issue and schema modals the result, when not null, has status
\* 'Confirmed' or 'Failed'; 'Confirmed' comes with a non-empty uid that
\* starts with '0x' and is set in the step in which tx.wait() of the run
\* resolves, with the hash of that transaction; 'Failed' comes with an empty
\* uid and an empty txHash.
C29_ConfirmedStep ==
  /\ (resultIssue'.status = "Confirmed" /\ resultIssue' # resultIssue) =>
       /\ attest.pc = "tx.wait"
       /\ \E waitResult \in WaitResults : AttestWaitResolved(waitResult)
       /\ resultIssue'.txHash = attest.txHash
  /\ (resultSchema'.status = "Confirmed" /\ resultSchema' # resultSchema) =>
       /\ deploy.pc = "tx.wait"
       /\ \E waitResult \in WaitResults : DeployWaitResolved(waitResult)
       /\ resultSchema'.txHash = deploy.txHash

C29_ResultWellFormed ==
  /\ [](WellFormed(resultIssue) /\ WellFormed(resultSchema))
  /\ [][C29_ConfirmedStep]_vars

C29_Witness ==
  /\ resultIssue.status = "Confirmed"
  /\ resultIssue.uid = StrUid
  /\ resultIssue.txHash = StrTxHash
  /\ ~isLoadingIssue

\* C30: after any sequence of addField, removeField and updateField the field
\* list holds at least one field.
C30_FieldListNeverEmpty == Len(fields) >= 1


====
